---- MODULE Spec2Model ----
(***************************************************************************)
(* GemFlow: the reasoning state machine (plan, act, reflect, validate,     *)
(* converge), the policy-wrapped model call (cache, rate limit, retry),    *)
(* tool execution, the in-memory history, the event bus and the run()      *)
(* facade.  Runs on one library instance share the response cache, the     *)
(* memory store and the event bus.                                         *)
(***************************************************************************)
EXTENDS Integers, Sequences, FiniteSets, TLC

\* ---------------------------------------------------------------- bounds
MaxStepsBound == 3      \* maxSteps is drawn from 1..MaxStepsBound
MaxRetryMax == 2        \* retries.max is drawn from 1..MaxRetryMax
MaxFailingCalls == 2    \* model calls the environment makes fail (at every attempt it likes)
MaxToolCalls == 2       \* tool calls the model requests over the instance's life
MaxIdleMs == 2          \* time that passes between two runs
TtlMs == 1              \* cache.ttlMs of the instance
StartMs == 100          \* Date.now() when the instance is created
RetryInitialDelayMs == 1
RetryFactor == 2
RetryMaxDelayMs == 2
RateLimitRpm == 60000
PerStepMs == 1          \* timeouts.perStepMs, where a per-step deadline is set
TotalMs == 2            \* timeouts.totalMs, where a total deadline is set

\* ------------------------------------------------------ program constants
MaxDeltas == 2          \* chunks the model's stream delivers at most
MaxEmits == 3           \* events emitted on a bus that is listened to
MaxKeepBound == 3       \* maxKeep of a memory is drawn from 1..MaxKeepBound
MaxAppends == 4         \* messages appended to a memory with such a maxKeep
MaxCacheEntries == 2    \* cache.max of a small cache is drawn from 1..MaxCacheEntries
MaxCacheCalls == 4      \* requests made to a small cache
MaxKeep == 200          \* InMemoryMemory.maxKeep default
CacheMax == 500         \* SimpleCache max default

Undef == "undefined"
Nodes == {"plan", "act", "reflect", "validate", "converge"}

VARIABLES
  now,            \* Date.now()
  conf,           \* the instance's options: retries.max, rateLimit.enabled
  responseCache,  \* SimpleCache: entries [key, value, at], least recently used first
  store,          \* InMemoryMemory.store: runId -> messages
  handlers,       \* the event bus's handler set (one handler per subscribed run)
  emitted,        \* every event passed to eventBus.emit, in order
  budget,         \* what the environment may still inject: [fails, tools, idle, appends]
  status,         \* run(): "idle", "running", "returned", "rejected"
  opts,           \* run(): input, maxSteps, collectEvents, temperature
  pc,             \* the graph's position in each run
  st,             \* GraphState of each run
  call,           \* the policy-wrapped model call in progress in each run
  limiter,        \* ctx.limiter.lastAt of each run
  loc,            \* locals of the act node: ai1, toolMessages
  events,         \* the events each run's handler collected
  invoked,        \* model invocations (invokeText) of each run, in order
  result,         \* what run() returned
  signal,         \* options.signal of each call: whether it has been aborted
  chunks,         \* the StreamChunks stream() has yielded, in order
  rejection,      \* the error run() rejected with, or stream() threw
  bus             \* the handlers subscribed through onEvent, and what each was called with

vars == <<now, conf, responseCache, store, handlers, emitted, budget, status,
          opts, pc, st, call, limiter, loc, events, invoked, result,
          signal, chunks, rejection, bus>>

\* ---------------------------------------------------------------- helpers
Min(a, b) == IF a < b THEN a ELSE b
Max(a, b) == IF a > b THEN a ELSE b

\* faulty variant of SliceLast: the oldest are kept
SliceFirst(s, n) ==
  IF n = 0 \/ Len(s) <= n THEN s ELSE SubSeq(s, 1, n)

\* s.slice(-n) for n >= 0; slice(-0) is slice(0), the whole array
SliceLast(s, n) ==
  IF n = 0 \/ Len(s) <= n THEN s ELSE SubSeq(s, Len(s) - n + 1, Len(s))

Range(s) == {s[i] : i \in 1..Len(s)}

\* genRunId(): the ids of the run() invocations, in the order they are made
RunOrder == <<"run_a", "run_b">>
RunIds == Range(RunOrder)

\* faulty variant of Dedup: the list as it is, duplicates kept
NoDedup(s) == s

RECURSIVE Dedup(_)
\* Array.from(new Set(s)): first occurrences, in order
Dedup(s) ==
  IF s = <<>> THEN <<>>
  ELSE LET h == Dedup(SubSeq(s, 1, Len(s) - 1))
           x == s[Len(s)]
       IN IF x \in Range(h) THEN h ELSE Append(h, x)

\* channel reducers of the StateGraph
last(a, b) == IF b = Undef THEN a ELSE b
concat(a, b) == a \o b

\* ------------------------------------------------------------------ inputs
\* RunInput: a task string, or {task, schema?}
Inputs ==
  { [isString |-> TRUE,  task |-> "taskA", schema |-> Undef],
    [isString |-> FALSE, task |-> "taskA", schema |-> "S"],
    [isString |-> FALSE, task |-> "taskB", schema |-> Undef] }

normalizeTask(input) == input.task
extractSchemaFromInput(input) == IF input.isString THEN Undef ELSE input.schema

\* what the model may answer, per call site
PlanTexts == {"plan-1", "plan-2"}
CandidateTexts == {"answer", " "}
ThoughtTexts == {"critique"}
\* results of withStructuredOutput(...).invoke: an object, or a non-object as-is
StructuredValues == {"{object}", "null"}

\* String.prototype.trim on the texts of the model
Trim(s) == IF s = " " THEN "" ELSE s

\* JavaScript truthiness of the values of the model
Truthy(v) == v \notin {Undef, "null", "", "false"}

\* Boolean(...) as the string the state keeps
Bool(b) == IF b THEN "true" ELSE "false"

\* ------------------------------------------------------------------- tools
\* ToolDefinition list of the instance
Tools ==
  << [name |-> "search", enabled |-> TRUE,  hidden |-> FALSE],
     [name |-> "legacy", enabled |-> FALSE, hidden |-> FALSE],
     [name |-> "secret", enabled |-> TRUE,  hidden |-> TRUE] >>

\* tool calls the model may return: a name (possibly missing) and arguments
\* that the tool's input shape accepts ("ok") or rejects ("bad")
ToolCalls ==
  { [name |-> "search", args |-> "ok"], [name |-> "search", args |-> "bad"],
    [name |-> "nosuch", args |-> "ok"], [name |-> "", args |-> "ok"] }
\* tool calls that name a tool of the instance that is disabled or hidden
OffToolCalls ==
  { [name |-> "legacy", args |-> "ok"], [name |-> "secret", args |-> "ok"] }
\* what execute does: returns a result, or throws
ExecOutcomes == {"result-1", "throws"}

\* -------------------------------------------------------------------- memory
Msg(role, content, name) == [role |-> role, content |-> content, name |-> name]

\* InMemoryMemory: this.maxKeep = options?.maxKeep ?? 200
KeepOf == IF conf.maxKeep = -1 THEN MaxKeep ELSE conf.maxKeep

\* InMemoryMemory.getHistory
getHistory(mem, runId) == SliceLast(mem[runId], KeepOf)

\* InMemoryMemory.append: the store after the call
append(mem, runId, messages) ==
  LET arr == mem[runId] \o messages
  IN [mem EXCEPT ![runId] = IF Len(arr) > KeepOf THEN SliceLast(arr, KeepOf) ELSE arr]

\* ---------------------------------------------------------- model messages
LCType(role) ==
  CASE role = "user" -> "human"
    [] role = "assistant" -> "ai"
    [] role = "tool" -> "tool"
    [] role = "system" -> "system"
    [] OTHER -> "human"

\* toLCMessages, as the {_type, content, name} triples the cache key keeps
toLCMessages(systemPrompt, history) ==
  (IF Trim(systemPrompt) # "" THEN <<[type |-> "system", content |-> systemPrompt, name |-> Undef]>>
   ELSE <<>>)
  \o [i \in 1..Len(history) |->
        [type |-> LCType(history[i].role), content |-> history[i].content,
         name |-> IF history[i].role = "tool" THEN history[i].name ELSE Undef]]

HumanMessage(content) == [type |-> "human", content |-> content, name |-> Undef]

\* buildSystemPrompt(...) of each node
SystemPromptOf(node) ==
  CASE node = "plan" -> "system:base"
    [] node = "act" -> "system:base+tools"
    [] node = "reflect" -> "system:base+critic"
    [] OTHER -> "system:base+schema"

PlanPrompt(task) == IF task = "taskA" THEN "plan-prompt:taskA" ELSE "plan-prompt:taskB"

\* makeCacheKey: stable serialization of {tag, model, temperature, messages}
makeCacheKey(tag, model, temperature, messages) ==
  [tag |-> tag, model |-> model, temperature |-> temperature, messages |-> messages]

\* an AIMessage: its content and its tool_calls
AI(content, toolCalls) == [content |-> content, tool_calls |-> toolCalls]
NoAI == AI(Undef, <<>>)

\* ------------------------------------------------------------------- cache
CacheIndex(c, key) ==
  IF \E i \in 1..Len(c) : c[i].key = key
  THEN CHOOSE i \in 1..Len(c) : c[i].key = key
  ELSE 0

CacheRemove(c, i) == SubSeq(c, 1, i - 1) \o SubSeq(c, i + 1, Len(c))

\* lru-cache isStale with ttl TtlMs
IsStale(entry, t) == t - entry.at > TtlMs

\* faulty variant of CacheGet: an entry is dropped once it has been read
CacheGetOnce(c, key, t) ==
  LET i == CacheIndex(c, key)
  IN IF i = 0 THEN [hit |-> FALSE, value |-> NoAI, cache |-> c]
     ELSE IF t - c[i].at > TtlMs
          THEN [hit |-> FALSE, value |-> NoAI, cache |-> CacheRemove(c, i)]
     ELSE [hit |-> TRUE, value |-> c[i].value, cache |-> CacheRemove(c, i)]

\* SimpleCache.get: [value, cache]; a stale entry is dropped, a live one
\* becomes the most recently used (its age is not refreshed)
CacheGet(c, key, t) ==
  LET i == CacheIndex(c, key)
  IN IF i = 0 THEN [hit |-> FALSE, value |-> NoAI, cache |-> c]
     ELSE IF IsStale(c[i], t)
          THEN [hit |-> FALSE, value |-> NoAI, cache |-> CacheRemove(c, i)]
     ELSE [hit |-> TRUE, value |-> c[i].value, cache |-> Append(CacheRemove(c, i), c[i])]

\* new LRU({ max: config?.max ?? 500 })
CacheMaxOf == IF conf.cacheMax = -1 THEN CacheMax ELSE conf.cacheMax

\* faulty variant of CacheSet: a full cache drops the entry used last
CacheSetDropsNewest(c, key, value, t) ==
  LET i == CacheIndex(c, key)
      rest == IF i = 0 THEN c ELSE CacheRemove(c, i)
      e == [key |-> key, value |-> value, at |-> t]
  IN IF Len(rest) + 1 > CacheMaxOf THEN Append(SubSeq(rest, 1, Len(rest) - 1), e)
     ELSE Append(rest, e)

\* SimpleCache.set: the cache after the call
CacheSet(c, key, value, t) ==
  LET i == CacheIndex(c, key)
      rest == IF i = 0 THEN c ELSE CacheRemove(c, i)
      all == Append(rest, [key |-> key, value |-> value, at |-> t])
  IN IF Len(all) > CacheMaxOf THEN SubSeq(all, 2, Len(all)) ELSE all

\* ------------------------------------------------------------------ events
Event(runId, kind, data) == [runId |-> runId, kind |-> kind, data |-> data]

\* the data of an event; -1 and Undef stand for a field the event does not carry
NoData ==
  [node |-> Undef, step |-> -1, attempt |-> -1, plan |-> Undef,
   thoughts |-> Undef, candidate |-> Undef, usedTools |-> <<>>, waitMs |-> -1,
   error |-> Undef]

NodeData(node, step) == [NoData EXCEPT !.node = node, !.step = step]

\* faulty variant of afterNode: the event is emitted as beforeNode emits it
afterNodeAsEnter(name, state, data) ==
  Event(state.runId, "node:enter", [data EXCEPT !.node = name, !.step = state.step])

\* beforeNode / afterNode
beforeNode(name, state) == Event(state.runId, "node:enter", NodeData(name, state.step))
afterNode(name, state, data) ==
  Event(state.runId, "node:exit", [data EXCEPT !.node = name, !.step = state.step])

\* the handlers a caller may subscribe through onEvent; one of them throws
\* whenever it is called
ListenerIds == {"h_throws", "h_ok"}
Throws(h) == h = "h_throws"

\* the bus with no onEvent subscriber: the subscribed handlers in insertion
\* order, those that were unsubscribed, and the events each was called with
NoBus ==
  [listeners |-> <<>>, gone |-> {}, heard |-> [h \in ListenerIds |-> <<>>]]

RECURSIVE EmitUncaught(_, _, _)
\* faulty variant of EmitOne: the exception of a handler leaves the loop
EmitUncaught(ls, heard, e) ==
  IF ls = <<>> THEN heard
  ELSE LET called == [heard EXCEPT ![Head(ls)] = Append(@, e)]
       IN IF Throws(Head(ls)) THEN called ELSE EmitUncaught(Tail(ls), called, e)

RECURSIVE EmitOne(_, _, _)
\* eventBus.emit: for (const h of handlers) try { h(e) } catch { warn }; the
\* loop goes on to the next handler whether h returned or threw
EmitOne(ls, heard, e) ==
  IF ls = <<>> THEN heard
  ELSE EmitOne(Tail(ls), [heard EXCEPT ![Head(ls)] = Append(@, e)], e)

RECURSIVE EmitAll(_, _, _)
\* the emits of the events es, in order
EmitAll(ls, heard, es) ==
  IF es = <<>> THEN heard
  ELSE EmitAll(ls, EmitOne(ls, heard, Head(es)), Tail(es))

\* eventBus.emit of the events es, in order, to the handlers hs; the handler
\* of run r pushes the event when o[r].collectEvents
DeliverTo(hs, es, o) ==
  /\ emitted' = emitted \o es
  /\ bus' = [bus EXCEPT !.heard = EmitAll(bus.listeners, @, es)]
  /\ events' = [r \in RunIds |->
                  IF r \in hs /\ o[r].collectEvents THEN events[r] \o es
                  ELSE events[r]]

Deliver(hs, es) == DeliverTo(hs, es, opts)

\* ------------------------------------------------------------------- tools
\* faulty variant of IsRegistered: hidden tools are put into the tool map
IsRegisteredHidden(name) ==
  \E i \in 1..Len(Tools) : Tools[i].name = name /\ Tools[i].enabled

IsRegistered(name) ==
  \E i \in 1..Len(Tools) :
    Tools[i].name = name /\ Tools[i].enabled /\ ~Tools[i].hidden

UnregisteredError(name) ==
  CASE name = "legacy" -> "{error: unregistered tool legacy}"
    [] name = "nosuch" -> "{error: unregistered tool nosuch}"
    [] name = "secret" -> "{error: unregistered tool secret}"
    [] name = "search" -> "{error: unregistered tool search}"
    [] OTHER -> "{error: unregistered tool }"

\* the tool message of one call; out is what execute does if it is reached
ToolMessageOf(c, out) ==
  IF ~IsRegistered(c.name) THEN Msg("tool", UnregisteredError(c.name), c.name)
  ELSE IF c.args = "bad" THEN Msg("tool", "{error: invalid arguments}", c.name)
  ELSE IF out = "throws" THEN Msg("tool", "{error: execute failed}", c.name)
  ELSE Msg("tool", out, c.name)

\* whether execute is invoked for the call
Executes(c) == IsRegistered(c.name) /\ c.args = "ok"

\* the names of the calls whose execute executeToolCalls invokes, in call order
ExecutedNames(aiMessage) ==
  LET ran == SelectSeq(aiMessage.tool_calls, Executes)
  IN [i \in 1..Len(ran) |-> ran[i].name]

\* faulty variant of executeToolCalls: an unregistered call is skipped without
\* a message
executeToolCallsSkipping(aiMessage, outs) ==
  LET all == [i \in 1..Len(aiMessage.tool_calls) |->
                ToolMessageOf(aiMessage.tool_calls[i], outs[i])]
  IN SelectSeq(all, LAMBDA m : IsRegistered(m.name))

\* executeToolCalls: one tool message per call, in call order
executeToolCalls(aiMessage, outs) ==
  [i \in 1..Len(aiMessage.tool_calls) |-> ToolMessageOf(aiMessage.tool_calls[i], outs[i])]

IsNonEmptyName(n) == n # ""
\* toolMessages.map((m) => m.name).filter(Boolean)
NamesOf(toolMessages) ==
  SelectSeq([i \in 1..Len(toolMessages) |-> toolMessages[i].name], IsNonEmptyName)

\* ------------------------------------------------------------- graph edges
\* faulty variant of afterAct: the machine stops when the ceiling is reached
afterActEnds(state) == IF state.step >= state.maxSteps THEN "END" ELSE "reflect"

\* faulty variant of afterValidate: the step ceiling is not consulted
afterValidateNoCeiling(state) == IF Truthy(state.isValid) THEN "converge" ELSE "act"

\* faulty variant of afterAct: the ceiling is compared strictly
afterActStrict(state) == IF state.step > state.maxSteps THEN "validate" ELSE "reflect"
afterAct(state) == IF state.step >= state.maxSteps THEN "validate" ELSE "reflect"

\* faulty variant of afterReflect: compares with the ceiling itself
afterReflectAtCeiling(state) == IF state.step >= state.maxSteps THEN "validate" ELSE "act"
afterReflect(state) == IF state.step >= state.maxSteps - 1 THEN "validate" ELSE "act"

\* faulty variant of stepAfterAct: act returns the counter it was given
stepKept(state) == state.step
\* the step the act node returns
stepAfterAct(state) == state.step + 1

\* faulty variant of isValidText: the candidate is not trimmed
isValidUntrimmed(candidateAnswer) == Bool(Truthy(candidateAnswer))
\* validity of a text candidate: Boolean(candidateAnswer && trim().length > 0)
isValidText(candidateAnswer) ==
  Bool(Truthy(candidateAnswer) /\ Trim(candidateAnswer) # "")

afterValidate(state) ==
  IF Truthy(state.isValid) THEN "converge"
  ELSE IF state.step >= state.maxSteps THEN "converge"
  ELSE "act"

\* ------------------------------------------------------------ initial state
NoKey == makeCacheKey("", "", 0, <<>>)
\* a call of callModelTextRaw: where it stands, its cache key, the locals of
\* retryAsync, its outcome, how many events had been emitted and how many
\* invocations the run had made when it was issued, the error the last
\* attempt was rejected with and the time the current attempt was started
NoCall ==
  [stage |-> "none", tag |-> "", key |-> NoKey, attempt |-> 0, delay |-> 0,
   ai |-> NoAI, fromCache |-> FALSE, emittedAt |-> 0, invokedAt |-> 0,
   error |-> Undef, attemptAt |-> 0]

NewCall(tag, messages, emittedAt, invokedAt) ==
  [NoCall EXCEPT !.stage = "lookup", !.tag = tag,
                 !.key = makeCacheKey(tag, "gemini-1.5-pro", 0, messages),
                 !.emittedAt = emittedAt, !.invokedAt = invokedAt]

\* initialState of run(), the other channels at their defaults
InitialState(runId, input, maxSteps) ==
  [runId |-> runId, input |-> input, step |-> 0, maxSteps |-> maxSteps,
   plan |-> Undef, thoughts |-> Undef, candidateAnswer |-> Undef,
   isValid |-> Undef, finalObject |-> Undef, endedAt |-> -1,
   cacheHit |-> FALSE, usedTools |-> <<>>, errors |-> <<>>]

NoInput == [isString |-> TRUE, task |-> "", schema |-> Undef]
\* the locals of the act node and of stream(): the first answer, the tool
\* messages, the text streamed so far, the chunks received from the model's
\* stream (how many, and which) and how the delta loop was left
NoLoc ==
  [ai1 |-> NoAI, toolMessages |-> <<>>, usedTools |-> <<>>,
   fullText |-> "", received |-> 0, produced |-> <<>>, exit |-> "none",
   executed |-> <<>>]
NoResult ==
  [text |-> Undef, object |-> Undef,
   meta |-> [steps |-> -1, usedTools |-> <<>>, cacheHit |-> FALSE,
             hasEvents |-> FALSE, events |-> <<>>]]

\* The instances explored: the options of createLibraryA and what the
\* environment may do to the instance.  One run in which nothing fails and no
\* tool is called, for every maxSteps; or one run with failing model calls; or
\* one run with tool calls; or two runs, one after the other, on one instance.
Options(maxSteps, retriesMax, rateLimit, collectEvents, runs) ==
  [maxSteps : maxSteps, retriesMax : retriesMax, rateLimit : rateLimit,
   collectEvents : collectEvents, runs : runs,
   perStepMs : {0}, totalMs : {0}, signal : {FALSE}, overlap : {FALSE},
   maxKeep : {-1}, cacheMax : {-1}]

Scenarios ==
  (Options(1..MaxStepsBound, {1}, BOOLEAN, BOOLEAN, {1})
     \X {[fails |-> 0, tools |-> 0, idle |-> 0, appends |-> 0, offTools |-> 0]})
  \cup (Options({1, 2}, 1..MaxRetryMax, {FALSE}, BOOLEAN, {1})
     \X {[fails |-> MaxFailingCalls, tools |-> 0, idle |-> 0, appends |-> 0, offTools |-> 0]})
  \cup (Options({1, 2}, {1}, {FALSE}, BOOLEAN, {1})
     \X {[fails |-> 0, tools |-> MaxToolCalls, idle |-> 0, appends |-> 0, offTools |-> 0]})
  \cup (Options({1}, {1}, BOOLEAN, {TRUE}, {2})
     \X {[fails |-> 0, tools |-> 1, idle |-> MaxIdleMs, appends |-> 0, offTools |-> 0]})

\* instances with deadlines: a per-step deadline, a total deadline, a signal
\* the caller may abort, and one model call that may fail or hang
DeadlineScenarios ==
  [maxSteps : {1, 2}, retriesMax : 1..MaxRetryMax, rateLimit : {FALSE},
   collectEvents : {FALSE}, runs : {1},
   perStepMs : {0, PerStepMs}, totalMs : {0, PerStepMs, TotalMs}, signal : BOOLEAN,
   overlap : {FALSE},
   maxKeep : {-1}, cacheMax : {-1}]
  \X {[fails |-> 1, tools |-> 0, idle |-> 0, appends |-> 0, offTools |-> 0]}

\* instances whose stream() is called: retries, rate limit and deadlines
\* configured, a signal the caller may abort, one failing model call, one tool
\* call, and a model that may take longer than the total deadline
StreamScenarios ==
  [maxSteps : {2, 5}, retriesMax : {2}, rateLimit : {TRUE},
   collectEvents : BOOLEAN, runs : {1},
   perStepMs : {0}, totalMs : {0, TotalMs}, signal : BOOLEAN, overlap : {FALSE},
   maxKeep : {-1}, cacheMax : {-1}]
  \X {[fails |-> 1, tools |-> 1, idle |-> TotalMs + 1, appends |-> 0, offTools |-> 0]}

\* instances whose event bus is listened to through onEvent
BusScenarios ==
  [maxSteps : {1}, retriesMax : {1}, rateLimit : {FALSE},
   collectEvents : {FALSE}, runs : {1},
   perStepMs : {0}, totalMs : {0}, signal : {FALSE}, overlap : {FALSE},
   maxKeep : {-1}, cacheMax : {-1}]
  \X {[fails |-> 0, tools |-> 0, idle |-> 0, appends |-> 0, offTools |-> 0]}

\* instances with four attempts per model call, one of whose calls fails
BackoffScenarios ==
  [maxSteps : {2}, retriesMax : {4}, rateLimit : {FALSE},
   collectEvents : {FALSE}, runs : {1},
   perStepMs : {0}, totalMs : {0}, signal : {FALSE}, overlap : {FALSE},
   maxKeep : {-1}, cacheMax : {-1}]
  \X {[fails |-> 1, tools |-> 0, idle |-> 0, appends |-> 0, offTools |-> 0]}

\* memories that keep few messages, and the messages appended to them
MemoryScenarios ==
  [maxSteps : {1}, retriesMax : {1}, rateLimit : {FALSE},
   collectEvents : {FALSE}, runs : {1},
   perStepMs : {0}, totalMs : {0}, signal : {FALSE}, overlap : {FALSE},
   maxKeep : 1..MaxKeepBound, cacheMax : {-1}]
  \X {[fails |-> 0, tools |-> 0, idle |-> 0, appends |-> MaxAppends, offTools |-> 0]}

\* instances on which a second run() is called while the first is running
ConcurrentScenarios ==
  [maxSteps : {1}, retriesMax : {1}, rateLimit : {FALSE},
   collectEvents : BOOLEAN, runs : {2},
   perStepMs : {0}, totalMs : {0}, signal : {FALSE}, overlap : {TRUE},
   maxKeep : {-1}, cacheMax : {-1}]
  \X {[fails |-> 0, tools |-> 0, idle |-> 0, appends |-> 0, offTools |-> 0]}

\* instances whose model asks for a tool while the caller may abort the signal
ToolScenarios ==
  [maxSteps : {1}, retriesMax : {1, 2}, rateLimit : {FALSE},
   collectEvents : {FALSE}, runs : {1},
   perStepMs : {0}, totalMs : {0}, signal : {TRUE}, overlap : {FALSE},
   maxKeep : {-1}, cacheMax : {-1}]
  \X {[fails |-> 0, tools |-> 1, idle |-> 0, appends |-> 0, offTools |-> 1]}

\* instances with a small cache, and time to let its entries expire
CacheScenarios ==
  [maxSteps : {1}, retriesMax : {1}, rateLimit : {FALSE},
   collectEvents : {FALSE}, runs : {1},
   perStepMs : {0}, totalMs : {0}, signal : {FALSE}, overlap : {FALSE},
   maxKeep : {-1}, cacheMax : 1..MaxCacheEntries]
  \X {[fails |-> 0, tools |-> 0, idle |-> MaxIdleMs, appends |-> 0, offTools |-> 0]}

\* the instance after createLibraryA, for a set of scenarios
InitIn(scenarios) ==
  /\ now = StartMs
  /\ \E sc \in scenarios : conf = sc[1] /\ budget = sc[2]
  /\ responseCache = <<>>
  /\ store = [r \in RunIds |-> <<>>]
  /\ handlers = {}
  /\ emitted = <<>>
  /\ status = [r \in RunIds |-> "idle"]
  /\ opts = [r \in RunIds |-> [input |-> NoInput, maxSteps |-> 0, collectEvents |-> FALSE,
                               startedAt |-> 0, kind |-> "run"]]
  /\ pc = [r \in RunIds |-> "idle"]
  /\ st = [r \in RunIds |-> InitialState(r, NoInput, 0)]
  /\ call = [r \in RunIds |-> NoCall]
  /\ limiter = [r \in RunIds |-> [lastAt |-> -1]]
  /\ loc = [r \in RunIds |-> NoLoc]
  /\ events = [r \in RunIds |-> <<>>]
  /\ invoked = [r \in RunIds |-> <<>>]
  /\ result = [r \in RunIds |-> NoResult]
  /\ signal = [r \in RunIds |-> [aborted |-> FALSE]]
  /\ chunks = [r \in RunIds |-> <<>>]
  /\ rejection = [r \in RunIds |-> Undef]
  /\ bus = NoBus

Init == InitIn(Scenarios)

\* ------------------------------------------------------------------ run()
\* run(): subscribe, build ctx, emit run:start, start the graph at plan
StartRun(r, input) ==
  /\ status[r] = "idle"
  /\ conf.overlap \/ \A q \in RunIds : status[q] # "running"
  /\ \E j \in 1..conf.runs :
       /\ RunOrder[j] = r
       /\ \A i \in 1..(j - 1) : status[RunOrder[i]] # "idle"
  /\ opts' = [opts EXCEPT ![r] = [input |-> input, maxSteps |-> conf.maxSteps,
                                  collectEvents |-> conf.collectEvents,
                                  startedAt |-> now, kind |-> "run"]]
  /\ handlers' = handlers \cup {r}
  /\ DeliverTo(handlers', <<Event(r, "run:start", NoData)>>, opts')
  /\ status' = [status EXCEPT ![r] = "running"]
  /\ st' = [st EXCEPT ![r] = InitialState(r, input, conf.maxSteps)]
  /\ pc' = [pc EXCEPT ![r] = "plan"]
  /\ limiter' = [limiter EXCEPT ![r] = [lastAt |-> -1]]
  /\ UNCHANGED <<now, conf, responseCache, store, budget, call, loc, invoked, result,
                 signal, chunks, rejection>>

\* ------------------------------------------------- policy-wrapped model call
\* ensureRateLimit: [wait, events]; the caller sleeps wait and records lastAt
MinIntervalMs == (60000 + RateLimitRpm - 1) \div RateLimitRpm

\* faulty variant of RateLimitWait: the elapsed time and the interval swapped
RateLimitWaitInverted(r) ==
  IF ~conf.rateLimit \/ RateLimitRpm <= 0 THEN 0
  ELSE LET lastAt == IF limiter[r].lastAt = -1 THEN 0 ELSE limiter[r].lastAt
       IN Max(0, (now - lastAt) - MinIntervalMs)

RateLimitWait(r) ==
  IF ~conf.rateLimit \/ RateLimitRpm <= 0 THEN 0
  ELSE LET lastAt == IF limiter[r].lastAt = -1 THEN 0 ELSE limiter[r].lastAt
       IN Max(0, MinIntervalMs - (now - lastAt))

\* callModelTextRaw up to the first invocation: cache lookup, then rate limit
CallLookup(r) ==
  /\ call[r].stage = "lookup"
  /\ LET got == CacheGet(responseCache, call[r].key, now)
         wait == RateLimitWait(r)
     IN /\ responseCache' = got.cache
        /\ IF got.hit
           THEN /\ call' = [call EXCEPT ![r].stage = "done", ![r].ai = got.value,
                                        ![r].fromCache = TRUE]
                /\ Deliver(handlers, <<Event(r, "cache:hit", NoData)>>)
                /\ UNCHANGED <<now, limiter>>
           ELSE /\ call' = [call EXCEPT ![r].stage = "invoke", ![r].attempt = 0,
                                        ![r].delay = RetryInitialDelayMs,
                                        ![r].attemptAt = now + wait]
                /\ Deliver(handlers,
                     IF wait > 0
                     THEN <<Event(r, "ratelimit:delay", [NoData EXCEPT !.waitMs = wait])>>
                     ELSE <<>>)
                /\ now' = now + wait
                /\ limiter' = IF conf.rateLimit /\ RateLimitRpm > 0
                              THEN [limiter EXCEPT ![r].lastAt = now']
                              ELSE limiter
  /\ UNCHANGED <<conf, store, handlers, budget, status, opts, pc, st, loc, invoked, result,
                 signal, chunks, rejection>>

\* the tool calls the model of the instance comes up with
CallsOffered == ToolCalls \cup (IF budget.offTools > 0 THEN OffToolCalls ELSE {})

\* what the model may answer to a call
Responses(tag) ==
  CASE tag = "plan" -> {AI(t, <<>>) : t \in PlanTexts}
    [] tag = "act.decide" ->
         {AI("decide", <<>>)}
         \cup (IF budget.tools >= 1 THEN {AI("decide", <<c>>) : c \in CallsOffered} ELSE {})
         \cup (IF budget.tools >= 2
               THEN {AI("decide", <<c, d>>) : c \in CallsOffered, d \in CallsOffered}
               ELSE {})
    [] tag = "act.summarize" -> {AI(t, <<>>) : t \in CandidateTexts}
    [] OTHER -> {AI(t, <<>>) : t \in ThoughtTexts}

\* an attempt of retryAsync succeeds: cache store, model:call:end
InvokeOk(r, ai) ==
  /\ call[r].stage = "invoke"
  /\ ~signal[r].aborted
  /\ ai \in Responses(call[r].tag)
  /\ invoked' = [invoked EXCEPT ![r] = Append(@, call[r].key)]
  /\ budget' = [budget EXCEPT !.tools = @ - Len(ai.tool_calls)]
  /\ responseCache' = CacheSet(responseCache, call[r].key, ai, now)
  /\ Deliver(handlers, <<Event(r, "model:call:end", NoData)>>)
  /\ call' = [call EXCEPT ![r].stage = "done", ![r].ai = ai, ![r].fromCache = FALSE]
  /\ UNCHANGED <<now, conf, store, handlers, status, opts, pc, st, limiter, loc, result,
                 signal, chunks, rejection>>

\* faulty variant of Exhausted: one attempt too many
ExhaustedLate(attempt, max) == attempt > max

\* retryAsync: after the attempt-th failure the error is rethrown
Exhausted(attempt, max) == attempt >= max

\* the deadline of withTimeout(graph.invoke(...), totalMs) in run r
Deadline(r) == opts[r].startedAt + conf.totalMs

\* what an attempt may be rejected with: the error of the model; the
\* per-step timer of withTimeout, unless the total timer of a run still
\* waiting comes first; the abort of the signal
ErrorKinds == {"error", "timeout", "abort"}

MayReject(r, kind) ==
  CASE kind = "error" -> ~signal[r].aborted /\ (call[r].attempt > 0 \/ budget.fails > 0)
    [] kind = "timeout" ->
         /\ conf.perStepMs > 0
         /\ ~signal[r].aborted
         /\ call[r].attempt > 0 \/ budget.fails > 0
         /\ (status[r] = "running" /\ conf.totalMs > 0) =>
              call[r].attemptAt + conf.perStepMs <= Deadline(r)
    [] OTHER -> signal[r].aborted

\* faulty variant of BackoffSleep: the delay is not capped
BackoffSleepUncapped(delay) == delay

\* retryAsync: sleep(Math.min(delay, maxDelay))
BackoffSleep(delay) == Min(delay, RetryMaxDelayMs)

\* an attempt of retryAsync fails: rethrow at the last attempt, else retry
\* event, backoff sleep, next attempt
FailAttempt(r, kind) ==
  /\ call[r].stage = "invoke"
  /\ MayReject(r, kind)
  /\ budget' = [budget EXCEPT !.fails = IF call[r].attempt = 0 /\ kind # "abort"
                                        THEN @ - 1 ELSE @]
  /\ invoked' = [invoked EXCEPT ![r] = Append(@, call[r].key)]
  /\ LET attempt == call[r].attempt + 1
         rejectedAt == IF kind = "timeout"
                       THEN Max(now, call[r].attemptAt + conf.perStepMs) ELSE now
     IN IF Exhausted(attempt, conf.retriesMax)
        THEN /\ call' = [call EXCEPT ![r].stage = "failed", ![r].attempt = attempt,
                                     ![r].error = kind]
             /\ pc' = [pc EXCEPT ![r] = "thrown"]
             /\ now' = rejectedAt
             /\ UNCHANGED <<emitted, bus, events>>
        ELSE /\ Deliver(handlers,
                  <<Event(r, "retry", [NoData EXCEPT !.attempt = attempt, !.error = kind])>>)
             /\ now' = rejectedAt + BackoffSleep(call[r].delay)
             /\ call' = [call EXCEPT ![r].attempt = attempt,
                                     ![r].delay = call[r].delay * RetryFactor,
                                     ![r].error = kind,
                                     ![r].attemptAt = now']
             /\ UNCHANGED pc
  /\ UNCHANGED <<conf, store, handlers, status, opts, st, limiter, loc, result,
                 signal, chunks, rejection>>

\* faulty variant of InvokeFail: the failed attempt leaves an entry under the
\* key of the call
InvokeFailStored(r, kind) ==
  /\ FailAttempt(r, kind)
  /\ responseCache' = CacheSet(responseCache, call[r].key, NoAI, now)

\* a failing attempt within callModelTextRaw: responseCache.set is not reached
InvokeFail(r, kind) ==
  /\ FailAttempt(r, kind)
  /\ responseCache' = responseCache

\* ------------------------------------------------------------- graph nodes
\* plan node up to its model call
PlanEnter(r) ==
  /\ pc[r] = "plan"
  /\ Deliver(handlers, <<beforeNode("plan", st[r])>>)
  /\ call' = [call EXCEPT ![r] =
       NewCall("plan",
         toLCMessages(SystemPromptOf("plan"), getHistory(store, r))
           \o <<HumanMessage(PlanPrompt(normalizeTask(st[r].input)))>>,
         Len(emitted'), Len(invoked[r]))]
  /\ pc' = [pc EXCEPT ![r] = "plan.call"]
  /\ UNCHANGED <<now, conf, responseCache, store, handlers, budget, status, opts,
                 st, limiter, loc, invoked, result,
                 signal, chunks, rejection>>

\* plan node after its model call: history, node:exit, state update, edge
PlanExit(r) ==
  /\ pc[r] = "plan.call"
  /\ call[r].stage = "done"
  /\ LET plan == call[r].ai.content
         fromCache == call[r].fromCache
     IN /\ store' = append(store, r,
             <<Msg("user", normalizeTask(st[r].input), Undef), Msg("assistant", plan, Undef)>>)
        /\ Deliver(handlers,
             <<afterNode("plan", st[r], [NoData EXCEPT !.plan = plan])>>)
        /\ st' = [st EXCEPT ![r].plan = last(@, plan),
                            ![r].cacheHit = st[r].cacheHit \/ fromCache]
  /\ call' = [call EXCEPT ![r] = NoCall]
  /\ pc' = [pc EXCEPT ![r] = "act"]
  /\ UNCHANGED <<now, conf, responseCache, handlers, budget, status, opts, limiter,
                 loc, invoked, result,
                 signal, chunks, rejection>>

\* act node up to the tool-decision call
ActEnter(r) ==
  /\ pc[r] = "act"
  /\ Deliver(handlers, <<beforeNode("act", st[r])>>)
  /\ call' = [call EXCEPT ![r] =
       NewCall("act.decide", toLCMessages(SystemPromptOf("act"), getHistory(store, r)),
         Len(emitted'), Len(invoked[r]))]
  /\ pc' = [pc EXCEPT ![r] = "act.decide"]
  /\ UNCHANGED <<now, conf, responseCache, store, handlers, budget, status, opts,
                 st, limiter, loc, invoked, result,
                 signal, chunks, rejection>>

\* act node once executeToolCalls has resolved: append the tool messages,
\* issue the candidate-answer call
ToolsDone(r, outs) ==
  /\ call[r].stage = "done"
  /\ LET ai1 == call[r].ai
         toolMessages == executeToolCalls(ai1, outs)
         usedTools == IF Len(toolMessages) > 0 THEN NamesOf(toolMessages) ELSE <<>>
     IN /\ \A i \in 1..Len(ai1.tool_calls) :
             ~Executes(ai1.tool_calls[i]) => outs[i] = "result-1"
        /\ store' = IF Len(toolMessages) > 0 THEN append(store, r, toolMessages) ELSE store
        /\ loc' = [loc EXCEPT ![r] =
             [NoLoc EXCEPT !.ai1 = ai1, !.toolMessages = toolMessages,
                           !.usedTools = usedTools,
                           !.executed = ExecutedNames(ai1)]]
        /\ call' = [call EXCEPT ![r] =
             NewCall("act.summarize",
               toLCMessages(SystemPromptOf("act"), getHistory(store', r)),
               Len(emitted), Len(invoked[r]))]
  /\ pc' = [pc EXCEPT ![r] = "act.summarize"]
  /\ UNCHANGED <<now, conf, responseCache, handlers, emitted, bus, budget, status, opts,
                 st, limiter, events, invoked, result,
                 signal, chunks, rejection>>

\* act node between its two calls: run the tools, append their messages,
\* issue the candidate-answer call
ActTools(r, outs) ==
  /\ pc[r] = "act.decide"
  /\ ToolsDone(r, outs)

\* act node after the candidate-answer call
ActExit(r) ==
  /\ pc[r] = "act.summarize"
  /\ call[r].stage = "done"
  /\ LET candidate == call[r].ai.content
         fromCache == call[r].fromCache
     IN /\ store' = append(store, r, <<Msg("assistant", candidate, Undef)>>)
        /\ Deliver(handlers,
             <<afterNode("act", st[r],
                 [NoData EXCEPT !.candidate = candidate,
                                !.usedTools = loc[r].usedTools])>>)
        /\ st' = [st EXCEPT ![r].candidateAnswer = last(@, candidate),
                            ![r].usedTools = concat(@, loc[r].usedTools),
                            ![r].step = stepAfterAct(st[r]),
                            ![r].cacheHit = st[r].cacheHit \/ fromCache]
        /\ pc' = [pc EXCEPT ![r] = afterAct(st'[r])]
  /\ call' = [call EXCEPT ![r] = NoCall]
  /\ loc' = [loc EXCEPT ![r] = NoLoc]
  /\ UNCHANGED <<now, conf, responseCache, handlers, budget, status, opts, limiter,
                 invoked, result,
                 signal, chunks, rejection>>

\* reflect node up to its model call
ReflectEnter(r) ==
  /\ pc[r] = "reflect"
  /\ Deliver(handlers, <<beforeNode("reflect", st[r])>>)
  /\ call' = [call EXCEPT ![r] =
       NewCall("reflect",
         toLCMessages(SystemPromptOf("reflect"), getHistory(store, r))
           \o <<HumanMessage("reflect-prompt")>>,
         Len(emitted'), Len(invoked[r]))]
  /\ pc' = [pc EXCEPT ![r] = "reflect.call"]
  /\ UNCHANGED <<now, conf, responseCache, store, handlers, budget, status, opts,
                 st, limiter, loc, invoked, result,
                 signal, chunks, rejection>>

\* reflect node after its model call
ReflectExit(r) ==
  /\ pc[r] = "reflect.call"
  /\ call[r].stage = "done"
  /\ LET thoughts == call[r].ai.content
         fromCache == call[r].fromCache
     IN /\ Deliver(handlers,
             <<afterNode("reflect", st[r],
                 [NoData EXCEPT !.thoughts = thoughts])>>)
        /\ st' = [st EXCEPT ![r].thoughts = last(@, thoughts),
                            ![r].cacheHit = st[r].cacheHit \/ fromCache]
        /\ pc' = [pc EXCEPT ![r] = afterReflect(st'[r])]
  /\ call' = [call EXCEPT ![r] = NoCall]
  /\ UNCHANGED <<now, conf, responseCache, store, handlers, budget, status, opts,
                 limiter, loc, invoked, result,
                 signal, chunks, rejection>>

\* validate node without a schema: the candidate is non-empty after trim
ValidateText(r) ==
  /\ pc[r] = "validate"
  /\ ~Truthy(extractSchemaFromInput(st[r].input))
  /\ LET isValid == isValidText(st[r].candidateAnswer)
     IN /\ Deliver(handlers,
             <<beforeNode("validate", st[r]),
               afterNode("validate", st[r], NoData)>>)
        /\ st' = [st EXCEPT ![r].isValid = last(@, isValid),
                            ![r].finalObject = last(@, Undef)]
        /\ pc' = [pc EXCEPT ![r] = afterValidate(st'[r])]
  /\ UNCHANGED <<now, conf, responseCache, store, handlers, budget, status, opts,
                 call, limiter, loc, invoked, result,
                 signal, chunks, rejection>>

\* validate node with a schema: invokeWithStructuredOutput returns object
ValidateSchema(r, object) ==
  /\ pc[r] = "validate"
  /\ Truthy(extractSchemaFromInput(st[r].input))
  /\ object \in StructuredValues
  /\ invoked' = [invoked EXCEPT ![r] =
       Append(@, makeCacheKey("structured", "gemini-1.5-pro", 0,
                   toLCMessages(SystemPromptOf("validate"), getHistory(store, r))
                     \o <<HumanMessage("schema-prompt")>>))]
  /\ Deliver(handlers,
       <<beforeNode("validate", st[r]),
         afterNode("validate", st[r], NoData)>>)
  /\ st' = [st EXCEPT ![r].isValid = last(@, "true"),
                      ![r].finalObject = last(@, object)]
  /\ pc' = [pc EXCEPT ![r] = afterValidate(st'[r])]
  /\ UNCHANGED <<now, conf, responseCache, store, handlers, budget, status, opts,
                 call, limiter, loc, result,
                 signal, chunks, rejection>>

\* validate node with a schema: invokeWithStructuredOutput throws
ValidateThrows(r) ==
  /\ pc[r] = "validate"
  /\ Truthy(extractSchemaFromInput(st[r].input))
  /\ budget.fails > 0
  /\ budget' = [budget EXCEPT !.fails = @ - 1]
  /\ invoked' = [invoked EXCEPT ![r] =
       Append(@, makeCacheKey("structured", "gemini-1.5-pro", 0,
                   toLCMessages(SystemPromptOf("validate"), getHistory(store, r))
                     \o <<HumanMessage("schema-prompt")>>))]
  /\ Deliver(handlers, <<beforeNode("validate", st[r])>>)
  /\ pc' = [pc EXCEPT ![r] = "thrown"]
  /\ UNCHANGED <<now, conf, responseCache, store, handlers, status, opts, st,
                 call, limiter, loc, result,
                 signal, chunks, rejection>>

\* converge node
Converge(r) ==
  /\ pc[r] = "converge"
  /\ Deliver(handlers,
       <<beforeNode("converge", st[r]),
         afterNode("converge", st[r], NoData)>>)
  /\ st' = [st EXCEPT ![r].endedAt = now]
  /\ pc' = [pc EXCEPT ![r] = "END"]
  /\ UNCHANGED <<now, conf, responseCache, store, handlers, budget, status, opts,
                 call, limiter, loc, invoked, result,
                 signal, chunks, rejection>>

\* ------------------------------------------------------- run(): the outcome
\* faulty variant of ResultOf: the text is returned beside the object
ResultOfBoth(final, meta) ==
  [text |-> IF final.candidateAnswer = Undef THEN "" ELSE final.candidateAnswer,
   object |-> final.finalObject,
   meta |-> meta]

\* faulty variant of Expired: the total timer is never armed
NeverExpired(r) == conf.totalMs < 0

\* the total timer of withTimeout has fired
Expired(r) == conf.totalMs > 0 /\ now > Deadline(r)

\* the RunResult built from the final state
ResultOf(final, meta) ==
  [text |-> IF Truthy(final.finalObject) THEN Undef
            ELSE IF final.candidateAnswer = Undef THEN "" ELSE final.candidateAnswer,
   object |-> final.finalObject,
   meta |-> meta]

\* faulty variant of runEnd: the event is emitted a second time
runEndTwice(r) == <<Event(r, "run:end", NoData), Event(r, "run:end", NoData)>>
\* what run() emits before it returns its result
runEnd(r) == <<Event(r, "run:end", NoData)>>

\* graph.invoke resolved: unsubscribe, build meta and the result, emit run:end
RunReturn(r) ==
  /\ status[r] = "running"
  /\ pc[r] = "END"
  /\ ~Expired(r)
  /\ handlers' = handlers \ {r}
  /\ LET final == st[r]
         meta == [steps |-> final.step,
                  usedTools |-> Dedup(final.usedTools),
                  cacheHit |-> final.cacheHit,
                  hasEvents |-> opts[r].collectEvents,
                  events |-> IF opts[r].collectEvents THEN events[r] ELSE <<>>]
     IN result' = [result EXCEPT ![r] = ResultOf(final, meta)]
  /\ Deliver(handlers', runEnd(r))
  /\ status' = [status EXCEPT ![r] = "returned"]
  /\ UNCHANGED <<now, conf, responseCache, store, budget, opts, pc, st, call,
                 limiter, loc, invoked,
                 signal, chunks, rejection>>

\* graph.invoke rejected: unsubscribe, run() rejects
RunReject(r) ==
  /\ status[r] = "running"
  /\ pc[r] = "thrown"
  /\ ~Expired(r)
  /\ handlers' = handlers \ {r}
  /\ status' = [status EXCEPT ![r] = "rejected"]
  /\ rejection' = [rejection EXCEPT ![r] =
       IF call[r].stage = "failed" THEN call[r].error ELSE "error"]
  /\ UNCHANGED <<now, conf, responseCache, store, emitted, bus, budget, opts, pc, st,
                 call, limiter, loc, events, invoked, result, signal, chunks>>

\* the total timer of withTimeout fires before graph.invoke has settled: the
\* clock has reached the deadline, or an invocation is in flight whose
\* per-step timer does not come first; run() unsubscribes and rejects, the
\* graph is not stopped
TotalTimeout(r) ==
  /\ status[r] = "running"
  /\ conf.totalMs > 0
  /\ \/ now >= Deadline(r)
     \/ /\ call[r].stage = "invoke"
        /\ conf.perStepMs = 0 \/ call[r].attemptAt + conf.perStepMs >= Deadline(r)
  /\ now' = Max(now, Deadline(r))
  /\ handlers' = handlers \ {r}
  /\ status' = [status EXCEPT ![r] = "rejected"]
  /\ rejection' = [rejection EXCEPT ![r] = "timeout"]
  /\ UNCHANGED <<conf, responseCache, store, emitted, bus, budget, opts, pc, st,
                 call, limiter, loc, events, invoked, result, signal, chunks>>

\* options.signal is aborted while run() waits: withTimeout rejects with
\* Aborted, run() unsubscribes and rejects, the graph is not stopped
Abort(r) ==
  /\ conf.signal
  /\ status[r] = "running"
  /\ opts[r].kind = "run"
  /\ ~signal[r].aborted
  /\ signal' = [signal EXCEPT ![r].aborted = TRUE]
  /\ handlers' = handlers \ {r}
  /\ status' = [status EXCEPT ![r] = "rejected"]
  /\ rejection' = [rejection EXCEPT ![r] = "abort"]
  /\ UNCHANGED <<now, conf, responseCache, store, emitted, bus, budget, opts, pc, st,
                 call, limiter, loc, events, invoked, result, chunks>>

\* time passes while no run is active
Tick ==
  /\ \A r \in RunIds : status[r] # "running"
  /\ \E r \in RunIds : status[r] # "idle"
  /\ budget.idle > 0
  /\ budget' = [budget EXCEPT !.idle = @ - 1]
  /\ now' = now + 1
  /\ UNCHANGED <<conf, responseCache, store, handlers, emitted, bus, status, opts, pc,
                 st, call, limiter, loc, events, invoked, result,
                 signal, chunks, rejection>>

Next ==
  \/ \E r \in RunIds, input \in Inputs : StartRun(r, input)
  \/ \E r \in RunIds : CallLookup(r)
  \/ \E r \in RunIds : \E ai \in Responses(call[r].tag) : InvokeOk(r, ai)
  \/ \E r \in RunIds : \E kind \in ErrorKinds : InvokeFail(r, kind)
  \/ \E r \in RunIds : PlanEnter(r)
  \/ \E r \in RunIds : PlanExit(r)
  \/ \E r \in RunIds : ActEnter(r)
  \/ \E r \in RunIds :
       \E outs \in [1..Len(call[r].ai.tool_calls) -> ExecOutcomes] : ActTools(r, outs)
  \/ \E r \in RunIds : ActExit(r)
  \/ \E r \in RunIds : ReflectEnter(r)
  \/ \E r \in RunIds : ReflectExit(r)
  \/ \E r \in RunIds : ValidateText(r)
  \/ \E r \in RunIds : \E object \in StructuredValues : ValidateSchema(r, object)
  \/ \E r \in RunIds : ValidateThrows(r)
  \/ \E r \in RunIds : Converge(r)
  \/ \E r \in RunIds : RunReturn(r)
  \/ \E r \in RunIds : RunReject(r)
  \/ Tick

Spec == Init /\ [][Next]_vars

\* the continuations of a run the event loop resumes: every step of the run
\* after run() was called
RunStep(r) ==
  \/ CallLookup(r)
  \/ \E ai \in Responses(call[r].tag) : InvokeOk(r, ai)
  \/ \E kind \in ErrorKinds : InvokeFail(r, kind)
  \/ PlanEnter(r) \/ PlanExit(r)
  \/ ActEnter(r)
  \/ \E outs \in [1..Len(call[r].ai.tool_calls) -> ExecOutcomes] : ActTools(r, outs)
  \/ ActExit(r)
  \/ ReflectEnter(r) \/ ReflectExit(r)
  \/ ValidateText(r)
  \/ \E object \in StructuredValues : ValidateSchema(r, object)
  \/ ValidateThrows(r)
  \/ Converge(r)
  \/ RunReturn(r) \/ RunReject(r)

\* every call the run awaits settles, and the run is then resumed
FairSpec == Spec /\ \A r \in RunIds : WF_vars(RunStep(r))

\* instances with deadlines and a cancellation signal
DeadlineNext ==
  \/ \E r \in RunIds, input \in Inputs : StartRun(r, input)
  \/ \E r \in RunIds : RunStep(r)
  \/ \E r \in RunIds : TotalTimeout(r)
  \/ \E r \in RunIds : Abort(r)

DeadlineSpec == InitIn(DeadlineScenarios) /\ [][DeadlineNext]_vars

\* a run whose calls are attempted up to four times
BackoffNext ==
  \/ \E r \in RunIds, input \in Inputs : StartRun(r, input)
  \/ \E r \in RunIds : RunStep(r)

BackoffSpec == InitIn(BackoffScenarios) /\ [][BackoffNext]_vars

\* runs of one instance that overlap, up to the end of their plan node; no
\* model call fails
ConcurrentNext ==
  \/ \E r \in RunIds, input \in Inputs : StartRun(r, input)
  \/ \E r \in RunIds : CallLookup(r)
  \/ \E r \in RunIds : \E ai \in Responses(call[r].tag) : InvokeOk(r, ai)
  \/ \E r \in RunIds : PlanEnter(r)
  \/ \E r \in RunIds : PlanExit(r)

ConcurrentSpec == InitIn(ConcurrentScenarios) /\ [][ConcurrentNext]_vars

\* ------------------------------------------------------------------ memory
\* the messages a caller of the adapter appends, in batches of up to two
MemMessages ==
  {Msg("user", "taskA", Undef), Msg("assistant", "answer", Undef),
   Msg("tool", "result-1", "search")}
MemBatches ==
  {<<>>} \cup {<<m>> : m \in MemMessages}
         \cup {<<m, n>> : m \in MemMessages, n \in MemMessages}

\* memory.append(runId, messages)
MemAppend(r, messages) ==
  /\ messages \in MemBatches
  /\ budget.appends >= Len(messages)
  /\ budget' = [budget EXCEPT !.appends = @ - Len(messages)]
  /\ store' = append(store, r, messages)
  /\ UNCHANGED <<now, conf, responseCache, handlers, emitted, bus, status, opts, pc, st,
                 call, limiter, loc, events, invoked, result, signal, chunks,
                 rejection>>

MemoryNext == \E r \in RunIds, messages \in MemBatches : MemAppend(r, messages)

MemorySpec == InitIn(MemoryScenarios) /\ [][MemoryNext]_vars

\* ----------------------------------------------------------------- onEvent
\* onEvent(handler): eventBus.on adds the handler; a handler subscribes once
OnEvent(h) ==
  /\ h \notin Range(bus.listeners)
  /\ h \notin bus.gone
  /\ bus' = [bus EXCEPT !.listeners = Append(@, h)]
  /\ UNCHANGED <<now, conf, responseCache, store, handlers, emitted, budget, status,
                 opts, pc, st, call, limiter, loc, events, invoked, result,
                 signal, chunks, rejection>>

\* the function onEvent returned is called: handlers.delete(handler)
OffEvent(h) ==
  /\ h \in Range(bus.listeners)
  /\ bus' = [bus EXCEPT !.listeners = SelectSeq(@, LAMBDA x : x # h),
                        !.gone = @ \cup {h}]
  /\ UNCHANGED <<now, conf, responseCache, store, handlers, emitted, budget, status,
                 opts, pc, st, call, limiter, loc, events, invoked, result,
                 signal, chunks, rejection>>

\* the library emits an event on the bus
BusEmit(r, kind) ==
  /\ Len(emitted) < MaxEmits
  /\ Deliver(handlers, <<Event(r, kind, NoData)>>)
  /\ UNCHANGED <<now, conf, responseCache, store, handlers, budget, status,
                 opts, pc, st, call, limiter, loc, invoked, result,
                 signal, chunks, rejection>>

BusNext ==
  \/ \E r \in RunIds, kind \in {"run:start", "run:end"} : BusEmit(r, kind)
  \/ \E h \in ListenerIds : OnEvent(h)
  \/ \E h \in ListenerIds : OffEvent(h)

BusSpec == InitIn(BusScenarios) /\ [][BusNext]_vars

\* ---------------------------------------------------------------- stream()
\* chunks the model's stream may deliver; streamText drops the empty ones
ModelChunks == {"ab", "c", ""}

\* a StreamChunk: {delta} or {event: "end", meta}
DeltaChunk(delta) == [event |-> Undef, delta |-> delta, meta |-> NoResult.meta]
EndChunk(meta) == [event |-> "end", delta |-> Undef, meta |-> meta]

\* faulty variant of afterDecide: the text is streamed whatever the input
afterDecideStreams(input) == "s.stream"

\* stream(): if (schema) after the tools
afterDecide(input) ==
  IF Truthy(extractSchemaFromInput(input)) THEN "s.structured" ELSE "s.stream"

\* faulty variant of AddDelta: the increment is put in front of the text
AddDeltaInFront(fullText, delta) == delta \o fullText

\* stream(): fullText += delta
AddDelta(fullText, delta) == fullText \o delta

\* faulty variant of Observes: the signal is not looked at
NeverObserves(r) == FALSE

\* stream(): options?.signal?.aborted inside the delta loop
Observes(r) == signal[r].aborted

\* the messages of the model call stream() makes at each position
StreamMessages(r) ==
  CASE pc[r] = "s.plan" ->
         toLCMessages("system:stream-plan", getHistory(store, r))
           \o <<HumanMessage(PlanPrompt(normalizeTask(opts[r].input)))>>
    [] pc[r] = "s.decide" -> toLCMessages("system:stream-act", getHistory(store, r))
    [] pc[r] = "s.structured" ->
         toLCMessages("system:stream-validate", getHistory(store, r))
           \o <<HumanMessage("schema-prompt")>>
    [] OTHER -> toLCMessages("system:stream-summarize", getHistory(store, r))

\* the cache key callModelTextRaw would give the call
StreamKey(r) == makeCacheKey(pc[r], "gemini-1.5-pro", 0, StreamMessages(r))

\* stream() up to its first model call: subscribe, build ctx, emit run:start
StartStream(r, input) ==
  /\ status[r] = "idle"
  /\ \A q \in RunIds : status[q] # "running"
  /\ \E j \in 1..conf.runs :
       /\ RunOrder[j] = r
       /\ \A i \in 1..(j - 1) : status[RunOrder[i]] # "idle"
  /\ opts' = [opts EXCEPT ![r] = [input |-> input, maxSteps |-> conf.maxSteps,
                                  collectEvents |-> conf.collectEvents,
                                  startedAt |-> now, kind |-> "stream"]]
  /\ handlers' = handlers \cup {r}
  /\ DeliverTo(handlers', <<Event(r, "run:start", NoData)>>, opts')
  /\ status' = [status EXCEPT ![r] = "running"]
  /\ pc' = [pc EXCEPT ![r] = "s.plan"]
  /\ limiter' = [limiter EXCEPT ![r] = [lastAt |-> -1]]
  /\ UNCHANGED <<now, conf, responseCache, store, budget, st, call, loc, invoked,
                 result, signal, chunks, rejection>>

\* the model takes its time to answer the plan call
StreamWaits(r) ==
  /\ status[r] = "running"
  /\ pc[r] = "s.plan"
  /\ budget.idle > 0
  /\ budget' = [budget EXCEPT !.idle = 0]
  /\ now' = now + budget.idle
  /\ UNCHANGED <<conf, responseCache, store, handlers, emitted, bus, status, opts, pc,
                 st, call, limiter, loc, events, invoked, result,
                 signal, chunks, rejection>>

\* planning: invokeText, then the task and the plan are appended
StreamPlan(r, ai) ==
  /\ status[r] = "running"
  /\ pc[r] = "s.plan"
  /\ ai \in Responses("plan")
  /\ invoked' = [invoked EXCEPT ![r] = Append(@, StreamKey(r))]
  /\ store' = append(store, r,
       <<Msg("user", normalizeTask(opts[r].input), Undef),
         Msg("assistant", ai.content, Undef)>>)
  /\ pc' = [pc EXCEPT ![r] = "s.decide"]
  /\ UNCHANGED <<now, conf, responseCache, handlers, emitted, bus, budget, status, opts,
                 st, call, limiter, loc, events, result, signal, chunks, rejection>>

\* tool decision: toolModel.invoke, executeToolCalls, the tool messages are
\* appended
StreamDecide(r, ai, outs) ==
  /\ status[r] = "running"
  /\ pc[r] = "s.decide"
  /\ ai \in Responses("act.decide")
  /\ outs \in [1..Len(ai.tool_calls) -> ExecOutcomes]
  /\ \A i \in 1..Len(ai.tool_calls) : ~Executes(ai.tool_calls[i]) => outs[i] = "result-1"
  /\ invoked' = [invoked EXCEPT ![r] = Append(@, StreamKey(r))]
  /\ budget' = [budget EXCEPT !.tools = @ - Len(ai.tool_calls)]
  /\ LET toolMessages == executeToolCalls(ai, outs)
     IN /\ store' = IF Len(toolMessages) > 0 THEN append(store, r, toolMessages) ELSE store
        /\ loc' = [loc EXCEPT ![r] = [NoLoc EXCEPT !.ai1 = ai, !.toolMessages = toolMessages]]
  /\ pc' = [pc EXCEPT ![r] = afterDecide(opts[r].input)]
  /\ UNCHANGED <<now, conf, responseCache, handlers, emitted, bus, status, opts,
                 st, call, limiter, events, result, signal, chunks, rejection>>

\* the model call stream() is waiting for rejects: the generator throws
StreamThrows(r) ==
  /\ status[r] = "running"
  /\ pc[r] \in {"s.plan", "s.decide", "s.structured", "s.stream"}
  /\ budget.fails > 0
  /\ budget' = [budget EXCEPT !.fails = @ - 1]
  /\ invoked' = [invoked EXCEPT ![r] = Append(@, StreamKey(r))]
  /\ pc' = [pc EXCEPT ![r] = "s.thrown"]
  /\ status' = [status EXCEPT ![r] = "rejected"]
  /\ rejection' = [rejection EXCEPT ![r] = "error"]
  /\ UNCHANGED <<now, conf, responseCache, store, handlers, emitted, bus, opts,
                 st, call, limiter, loc, events, result, signal, chunks>>

\* the meta of the end chunk, run:end, and the end chunk itself; the events
\* array of the meta is the one the handler keeps pushing to
StreamFinish(r, steps) ==
  /\ Deliver(handlers, <<Event(r, "run:end", NoData)>>)
  /\ LET meta == [steps |-> Min(opts[r].maxSteps, steps),
                  usedTools |-> NamesOf(loc[r].toolMessages),
                  cacheHit |-> FALSE,
                  hasEvents |-> opts[r].collectEvents,
                  events |-> IF opts[r].collectEvents THEN events'[r] ELSE <<>>]
     IN chunks' = [chunks EXCEPT ![r] = Append(@, EndChunk(meta))]
  /\ pc' = [pc EXCEPT ![r] = "s.yielded"]

\* schema branch: invokeWithStructuredOutput, then the end chunk alone
StreamStructured(r, object) ==
  /\ status[r] = "running"
  /\ pc[r] = "s.structured"
  /\ object \in StructuredValues
  /\ invoked' = [invoked EXCEPT ![r] = Append(@, StreamKey(r))]
  /\ StreamFinish(r, 3)
  /\ UNCHANGED <<now, conf, responseCache, store, handlers, budget, status, opts,
                 st, call, limiter, loc, result, signal, rejection>>

\* streamText: model.stream(messages) resolves
StreamOpen(r) ==
  /\ status[r] = "running"
  /\ pc[r] = "s.stream"
  /\ invoked' = [invoked EXCEPT ![r] = Append(@, StreamKey(r))]
  /\ pc' = [pc EXCEPT ![r] = "s.deltas"]
  /\ UNCHANGED <<now, conf, responseCache, store, handlers, emitted, bus, budget, status,
                 opts, st, call, limiter, loc, events, result, signal, chunks,
                 rejection>>

\* the model's stream delivers a chunk: streamText drops an empty one; the
\* loop is left if the signal is aborted; else the delta is yielded
StreamDelta(r, chunk) ==
  /\ status[r] = "running"
  /\ pc[r] = "s.deltas"
  /\ loc[r].exit = "none"
  /\ loc[r].received < MaxDeltas
  /\ chunk \in ModelChunks
  /\ IF chunk = ""
     THEN /\ loc' = [loc EXCEPT ![r].received = @ + 1, ![r].produced = Append(@, chunk)]
          /\ UNCHANGED chunks
     ELSE IF Observes(r)
     THEN /\ loc' = [loc EXCEPT ![r].received = @ + 1, ![r].produced = Append(@, chunk),
                                ![r].exit = "break"]
          /\ UNCHANGED chunks
     ELSE /\ loc' = [loc EXCEPT ![r].received = @ + 1, ![r].produced = Append(@, chunk),
                                ![r].fullText = AddDelta(@, chunk)]
          /\ chunks' = [chunks EXCEPT ![r] = Append(@, DeltaChunk(chunk))]
  /\ UNCHANGED <<now, conf, responseCache, store, handlers, emitted, bus, budget, status,
                 opts, pc, st, call, limiter, events, invoked, result, signal,
                 rejection>>

\* the model's stream is exhausted
StreamExhausted(r) ==
  /\ status[r] = "running"
  /\ pc[r] = "s.deltas"
  /\ loc[r].exit = "none"
  /\ loc' = [loc EXCEPT ![r].exit = "exhausted"]
  /\ UNCHANGED <<now, conf, responseCache, store, handlers, emitted, bus, budget, status,
                 opts, pc, st, call, limiter, events, invoked, result, signal,
                 chunks, rejection>>

\* after the loop: the text is appended, then the end chunk
StreamEnd(r) ==
  /\ status[r] = "running"
  /\ pc[r] = "s.deltas"
  /\ loc[r].exit # "none"
  /\ store' = append(store, r, <<Msg("assistant", loc[r].fullText, Undef)>>)
  /\ StreamFinish(r, 4)
  /\ UNCHANGED <<now, conf, responseCache, handlers, budget, status, opts,
                 st, call, limiter, loc, invoked, result, signal, rejection>>

\* the consumer asks for the chunk after the end chunk: off(), the generator
\* is done
StreamClose(r) ==
  /\ status[r] = "running"
  /\ pc[r] = "s.yielded"
  /\ handlers' = handlers \ {r}
  /\ status' = [status EXCEPT ![r] = "returned"]
  /\ pc' = [pc EXCEPT ![r] = "s.done"]
  /\ UNCHANGED <<now, conf, responseCache, store, emitted, bus, budget, opts,
                 st, call, limiter, loc, events, invoked, result, signal, chunks,
                 rejection>>

\* the caller aborts options.signal while stream() is running
StreamAbort(r) ==
  /\ conf.signal
  /\ status[r] = "running"
  /\ opts[r].kind = "stream"
  /\ ~signal[r].aborted
  /\ signal' = [signal EXCEPT ![r].aborted = TRUE]
  /\ UNCHANGED <<now, conf, responseCache, store, handlers, emitted, bus, budget, status,
                 opts, pc, st, call, limiter, loc, events, invoked, result, chunks,
                 rejection>>

\* the continuations of stream() and of its consumer
StreamStep(r) ==
  \/ \E ai \in Responses("plan") : StreamPlan(r, ai)
  \/ \E ai \in Responses("act.decide") :
       \E outs \in [1..Len(ai.tool_calls) -> ExecOutcomes] : StreamDecide(r, ai, outs)
  \/ \E object \in StructuredValues : StreamStructured(r, object)
  \/ StreamOpen(r)
  \/ \E chunk \in ModelChunks : StreamDelta(r, chunk)
  \/ StreamExhausted(r)
  \/ StreamEnd(r)
  \/ StreamClose(r)
  \/ StreamThrows(r)

StreamNext ==
  \/ \E r \in RunIds, input \in Inputs : StartStream(r, input)
  \/ \E r \in RunIds : StreamStep(r)
  \/ \E r \in RunIds : StreamWaits(r)
  \/ \E r \in RunIds : StreamAbort(r)

StreamSpec == InitIn(StreamScenarios) /\ [][StreamNext]_vars

\* the model answers or its stream ends, and the consumer keeps iterating
FairStreamSpec == StreamSpec /\ \A r \in RunIds : WF_vars(StreamStep(r))


\* ------------------------------------------------------------ observations
\* what an observer of the event bus, the history and the results can tell
EventsOf(r) == SelectSeq(emitted, LAMBDA e : e.runId = r)
NodeEventsOf(r) == SelectSeq(EventsOf(r), LAMBDA e : e.kind \in {"node:enter", "node:exit"})
EntriesOf(r, node) ==
  Len(SelectSeq(EventsOf(r), LAMBDA e : e.kind = "node:enter" /\ e.data.node = node))
ExitsOf(r, node) ==
  Len(SelectSeq(EventsOf(r), LAMBDA e : e.kind = "node:exit" /\ e.data.node = node))

\* act entries up to the first entry into validate
ActEntriesBeforeValidate(r) ==
  LET ne == NodeEventsOf(r)
      vs == {i \in 1..Len(ne) : ne[i].kind = "node:enter" /\ ne[i].data.node = "validate"}
      upto == IF vs = {} THEN Len(ne) ELSE CHOOSE i \in vs : \A j \in vs : i <= j
  IN Cardinality({i \in 1..upto : ne[i].kind = "node:enter" /\ ne[i].data.node = "act"})

\* the events and the model invocations of the call in progress in run r
CallEvents(r) ==
  SelectSeq(SubSeq(emitted, call[r].emittedAt + 1, Len(emitted)), LAMBDA e : e.runId = r)
Invocations(r) == Len(invoked[r]) - call[r].invokedAt
RetriesOf(r) == SelectSeq(CallEvents(r), LAMBDA e : e.kind = "retry")
CallEndsOf(r) == SelectSeq(CallEvents(r), LAMBDA e : e.kind = "model:call:end")

\* the names of the tool messages in the history of run r
ToolNamesCalled(r) ==
  {store[r][i].name : i \in {j \in 1..Len(store[r]) : store[r][j].role = "tool"}} \ {""}

\* ------------------------------------------------------------------ claims
\* C1: in a run with maxSteps = N the act phase is entered at most N times
\* before the first entry into validate, and at most N times over the whole
\* run, whatever the model returns.
C1_ActEntriesBounded ==
  \A r \in RunIds :
    status[r] # "idle" =>
      /\ ActEntriesBeforeValidate(r) <= opts[r].maxSteps
      /\ EntriesOf(r, "act") <= opts[r].maxSteps

C1_Witness ==
  \E r \in RunIds :
    /\ status[r] = "returned"
    /\ opts[r].maxSteps = MaxStepsBound
    /\ EntriesOf(r, "act") = MaxStepsBound
    /\ EntriesOf(r, "validate") > 1

\* C2: every run starts in plan; if every call it awaits settles, it executes
\* converge (or one of its calls threw) after finitely many phases, for every
\* maxSteps and every validity outcome; and the machine terminates only from
\* converge.
C2_StartsInPlanEndsInConverge ==
  /\ [](\A r \in RunIds :
          LET ne == NodeEventsOf(r)
          IN /\ ne # <<>> => ne[1].kind = "node:enter" /\ ne[1].data.node = "plan"
             /\ pc[r] = "END" => /\ ne[Len(ne)].kind = "node:exit"
                                 /\ ne[Len(ne)].data.node = "converge"
                                 /\ ExitsOf(r, "converge") = 1)
  /\ [][\A r \in RunIds :
          /\ (status[r] = "idle" /\ status'[r] = "running") => pc'[r] = "plan"
          /\ (pc[r] # "END" /\ pc'[r] = "END") => pc[r] = "converge"]_vars
  /\ \A r \in RunIds :
       (status[r] = "running") ~> (ExitsOf(r, "converge") = 1 \/ pc[r] = "thrown")

C2_Witness ==
  \E r \in RunIds :
    /\ pc[r] = "END"
    /\ opts[r].maxSteps = MaxStepsBound
    /\ st[r].step = MaxStepsBound
    /\ st[r].isValid = "false"
    /\ budget.fails = 0

\* C3: the result of run() carries exactly one of text and object: with a
\* schema in the input and an object produced by validate, the object is
\* returned and the text is absent; without a schema the text is returned, it
\* is the last candidate answer, and the object is absent.
C3_TextOrObject ==
  \A r \in RunIds :
    status[r] = "returned" =>
      LET res == result[r]
          declares == Truthy(extractSchemaFromInput(opts[r].input))
          h == store[r]
      IN /\ (declares /\ st[r].finalObject = "{object}") =>
              res.object = "{object}" /\ res.text = Undef
         /\ ~declares =>
              /\ res.text # Undef
              /\ res.text = h[Len(h)].content
              /\ h[Len(h)].role = "assistant"
              /\ res.object = Undef

C3_Witness ==
  /\ status["run_a"] = "returned"
  /\ opts["run_a"].input.schema = "S"
  /\ result["run_a"].object = "{object}"
  /\ status["run_b"] = "returned"
  /\ opts["run_b"].input.isString
  /\ result["run_b"].text = "answer"

\* C4: a policy-wrapped call with retry maximum M that fails k < M times and
\* then succeeds has emitted exactly k retry events, numbered 1..k, and
\* returns the response; one that fails M times has invoked the model M
\* times, emitted no model:call:end, and its error has reached the phase.
C4_RetryBound ==
  \A r \in RunIds :
    LET n == Invocations(r)
        M == conf.retriesMax
        retries == RetriesOf(r)
        evs == CallEvents(r)
    IN /\ (call[r].stage = "done" /\ ~call[r].fromCache) =>
            /\ n >= 1 /\ n - 1 < M
            /\ Len(retries) = n - 1
            /\ \A i \in 1..Len(retries) : retries[i].data.attempt = i
            /\ Len(CallEndsOf(r)) = 1
            /\ evs[Len(evs)].kind = "model:call:end"
            /\ call[r].ai # NoAI
       /\ call[r].stage = "failed" =>
            /\ n = M
            /\ Len(retries) = M - 1
            /\ \A i \in 1..Len(retries) : retries[i].data.attempt = i
            /\ Len(CallEndsOf(r)) = 0
            /\ pc[r] = "thrown"
       /\ call[r].stage = "invoke" =>
            /\ n < M
            /\ Len(retries) = n
            /\ Len(CallEndsOf(r)) = 0

C4_Witness ==
  \E r \in RunIds :
    /\ call[r].stage = "failed"
    /\ conf.retriesMax = MaxRetryMax
    /\ Invocations(r) = MaxRetryMax
    /\ \E i \in 1..Len(emitted) : \E j \in (i + 1)..Len(emitted) :
         /\ emitted[i].kind = "retry"
         /\ emitted[j].kind = "model:call:end"

\* C5: a policy-wrapped call whose request is in the cache and within the TTL
\* returns the stored response without invoking the model, and the run that
\* issued it ends with cacheHit = true; a request whose entry is older than
\* the TTL is sent to the model again.
C5_CacheIdempotence ==
  \A r \in RunIds :
    /\ (call[r].stage = "done" /\ call[r].fromCache) =>
         /\ Invocations(r) = 0
         /\ \E i \in 1..Len(responseCache) :
              /\ responseCache[i].key = call[r].key
              /\ responseCache[i].value = call[r].ai
              /\ now - responseCache[i].at <= TtlMs
    /\ call[r].stage = "invoke" => CacheIndex(responseCache, call[r].key) = 0
    /\ (status[r] = "returned"
          /\ \E i \in 1..Len(emitted) :
               emitted[i].runId = r /\ emitted[i].kind = "cache:hit") =>
         result[r].meta.cacheHit

\* C6: no tool failure propagates out of tool execution: every tool call of
\* the model, in call order, yields exactly one tool message, holding the
\* tool's result or an error payload (unknown name, rejected arguments,
\* execute threw), and the run goes on to the candidate-answer call.
C6_ToolFailuresContained ==
  \A r \in RunIds :
    /\ pc[r] = "act.summarize" =>
         LET calls == loc[r].ai1.tool_calls
             msgs == loc[r].toolMessages
         IN /\ Len(msgs) = Len(calls)
            /\ \A i \in 1..Len(msgs) :
                 /\ msgs[i].role = "tool"
                 /\ msgs[i].name = calls[i].name
                 /\ ~IsRegistered(calls[i].name) =>
                      msgs[i].content = UnregisteredError(calls[i].name)
                 /\ (IsRegistered(calls[i].name) /\ calls[i].args = "bad") =>
                      msgs[i].content = "{error: invalid arguments}"
                 /\ (IsRegistered(calls[i].name) /\ calls[i].args = "ok") =>
                      msgs[i].content \in {"result-1", "{error: execute failed}"}
            /\ call[r].tag = "act.summarize"
            /\ call[r].stage # "none"
    /\ (pc[r] = "thrown" /\ call[r].stage # "failed") =>
         LET ne == NodeEventsOf(r)
         IN ne[Len(ne)].kind = "node:enter" /\ ne[Len(ne)].data.node = "validate"

C6_Witness ==
  \E r \in RunIds :
    /\ pc[r] = "act.summarize"
    /\ Len(loc[r].toolMessages) = 2
    /\ loc[r].toolMessages[1].content = UnregisteredError("nosuch")
    /\ loc[r].toolMessages[2].content = "{error: execute failed}"
    /\ call[r].stage = "done"

\* C7: the tool messages of an act iteration are in the history, and in the
\* request, when that iteration's candidate-answer call is issued; and
\* meta.usedTools holds each tool name called during the run exactly once.
C7_ToolMessagesBeforeCandidate ==
  \A r \in RunIds :
    /\ pc[r] = "act.summarize" =>
         LET tm == loc[r].toolMessages
             n == Len(tm)
             h == store[r]
             msgs == call[r].key.messages
         IN /\ n <= Len(h) /\ n <= Len(msgs)
            /\ SubSeq(h, Len(h) - n + 1, Len(h)) = tm
            /\ \A i \in 1..n :
                 msgs[Len(msgs) - n + i] =
                   [type |-> "tool", content |-> tm[i].content, name |-> tm[i].name]
    /\ status[r] = "returned" =>
         LET u == result[r].meta.usedTools
         IN /\ \A i, j \in 1..Len(u) : u[i] = u[j] => i = j
            /\ Range(u) = ToolNamesCalled(r)

C7_Witness ==
  \E r \in RunIds :
    /\ status[r] = "returned"
    /\ result[r].meta.usedTools = <<"search">>
    /\ Len(SelectSeq(store[r], LAMBDA m : m.role = "tool" /\ m.name = "search")) = 2
    /\ \E i \in 1..Len(store[r]) : store[r][i].content = "result-1"

\* C8: nothing in the value run() returns (text, object, meta, meta.events
\* when events are collected) holds the plan text or the reflection text of
\* the run.
C8_NoInternalText ==
  \A r \in RunIds :
    status[r] = "returned" =>
      LET res == result[r]
          internal == {st[r].plan, st[r].thoughts} \ {Undef}
      IN /\ res.text \notin internal
         /\ res.object \notin internal
         /\ \A i \in 1..Len(res.meta.events) :
              /\ res.meta.events[i].data.plan = Undef
              /\ res.meta.events[i].data.thoughts = Undef
              /\ res.meta.events[i].data.candidate \notin internal

\* C9: every node:enter of a run is followed by the node:exit of the same
\* phase once the phase is over, whether it succeeded or its model call
\* failed and the error left the phase.
C9_ExitAfterEveryEnter ==
  \A r \in RunIds :
    pc[r] \in {"END", "thrown"} =>
      LET ne == NodeEventsOf(r)
      IN \A i \in 1..Len(ne) :
           ne[i].kind = "node:enter" =>
             /\ i < Len(ne)
             /\ ne[i + 1].kind = "node:exit"
             /\ ne[i + 1].data.node = ne[i].data.node

\* the edges of the graph
Follows(p, q) ==
  \/ p = "plan" /\ q = "act"
  \/ p = "act" /\ q \in {"reflect", "validate"}
  \/ p = "reflect" /\ q \in {"act", "validate"}
  \/ p = "validate" /\ q \in {"act", "converge"}

\* C10: the node events of a run alternate enter(p), exit(p), starting with
\* plan and following the edges of the graph; every node:exit follows the
\* node:enter of the same phase; the history is appended to by plan first and
\* then by each act, and by nothing once validate is entered.
C10_NodeEventsOrdered ==
  /\ [](\A r \in RunIds :
          LET ne == NodeEventsOf(r)
              h == store[r]
          IN /\ \A i \in 1..Len(ne) :
                  IF i % 2 = 1
                  THEN /\ ne[i].kind = "node:enter"
                       /\ i = 1 => ne[i].data.node = "plan"
                       /\ i > 2 => Follows(ne[i - 2].data.node, ne[i].data.node)
                  ELSE /\ ne[i].kind = "node:exit"
                       /\ ne[i].data.node = ne[i - 1].data.node
                       /\ ne[i].data.step = ne[i - 1].data.step
             /\ Len(h) > 0 =>
                  /\ ExitsOf(r, "plan") = 1
                  /\ Len(h) >= 2
                  /\ h[1] = Msg("user", normalizeTask(opts[r].input), Undef)
                  /\ h[2].role = "assistant" /\ h[2].content = st[r].plan
                  /\ \A i \in 3..Len(h) : h[i].role \in {"tool", "assistant"}
             /\ Len(SelectSeq(h, LAMBDA m : m.role = "assistant"))
                  = ExitsOf(r, "plan") + ExitsOf(r, "act"))
  /\ [][\A r \in RunIds :
          store'[r] # store[r] =>
            /\ pc[r] \in {"plan.call", "act.decide", "act.summarize"}
            /\ Len(store'[r]) > Len(store[r])
            /\ SubSeq(store'[r], 1, Len(store[r])) = store[r]]_vars

C10_Witness ==
  \E r \in RunIds :
    /\ status[r] = "returned"
    /\ EntriesOf(r, "reflect") >= 1
    /\ EntriesOf(r, "act") >= 2
    /\ Len(NodeEventsOf(r)) >= 12

\* C13: with rate limiting on and rpm = R, a non-cached policy-wrapped call
\* of a run is released at least ceil(60000/R) ms after the previous one of
\* that run; when it has to wait, ratelimit:delay with the wait is emitted,
\* and the limiter's last-call time is the time after the sleep.
C13_RateLimitSpacing ==
  [][\A r \in RunIds :
       (conf.rateLimit /\ call[r].stage = "lookup" /\ call'[r].stage = "invoke") =>
         /\ limiter'[r].lastAt = now'
         /\ limiter[r].lastAt # -1 =>
              (now' - limiter[r].lastAt) * RateLimitRpm >= 60000
         /\ now' > now =>
              /\ Len(emitted') = Len(emitted) + 1
              /\ emitted'[Len(emitted')].runId = r
              /\ emitted'[Len(emitted')].kind = "ratelimit:delay"
              /\ emitted'[Len(emitted')].data.waitMs = now' - now
         /\ now' = now => emitted' = emitted]_vars

C13_Witness ==
  \E r \in RunIds :
    /\ conf.rateLimit
    /\ call[r].stage = "invoke"
    /\ call[r].tag = "act.summarize"
    /\ limiter[r].lastAt = now
    /\ emitted[Len(emitted)].kind = "ratelimit:delay"
    /\ emitted[Len(emitted)].data.waitMs >= 1

\* C14: the limiter's last-call time is shared by the runs of an instance:
\* the last releases of two different runs are at least ceil(60000/R) ms
\* apart.
C14_SharedLimiter ==
  \A r, q \in RunIds :
    (r # q /\ conf.rateLimit /\ limiter[r].lastAt # -1 /\ limiter[q].lastAt # -1) =>
      \/ (limiter[r].lastAt - limiter[q].lastAt) * RateLimitRpm >= 60000
      \/ (limiter[q].lastAt - limiter[r].lastAt) * RateLimitRpm >= 60000

\* C15: every model call of run(), the structured-output call of validate
\* included, takes the policy path: once validate's call has returned, its
\* response is in the cache and the limiter has recorded its release.
C15_SinglePolicyPath ==
  \A r \in RunIds :
    (pc[r] = "converge" /\ Truthy(extractSchemaFromInput(st[r].input))) =>
      /\ invoked[r] # <<>>
      /\ invoked[r][Len(invoked[r])].tag = "structured"
      /\ CacheIndex(responseCache, invoked[r][Len(invoked[r])]) # 0
      /\ conf.rateLimit => limiter[r].lastAt = now

\* C18: a model call that fails after its retries is recorded in the run's
\* error list, and the list holds exactly the phase failures of the run.
C18_ErrorsRecorded ==
  \A r \in RunIds :
    /\ pc[r] = "thrown" =>
         /\ Len(st[r].errors) = 1
         /\ st[r].errors[1].step = st[r].step
    /\ pc[r] # "thrown" => st[r].errors = <<>>

\* ---------------------------------------------------------------- C11
\* C11: a timeout or cancellation error raised by a timeout-wrapped model
\* call is never retried: once an attempt of a call was rejected with one,
\* the call has failed for good and the node has thrown, and no retry event
\* carries such an error.
C11_TimeoutNotRetried ==
  /\ \A r \in RunIds :
       call[r].error \in {"timeout", "abort"} =>
         call[r].stage = "failed" /\ pc[r] = "thrown"
  /\ \A i \in 1..Len(emitted) :
       emitted[i].kind = "retry" => emitted[i].data.error \notin {"timeout", "abort"}

\* ---------------------------------------------------------------- C12
\* C12: the per-step and the total deadline both apply and the first to
\* elapse wins. run() returns a result only while the total deadline has not
\* passed and the signal is not aborted; a rejected run stays rejected and
\* has no result; run() rejects with the total timeout only at or after the
\* deadline, and over an invocation in flight only if the per-step timer of
\* that invocation does not come first; an abort rejects the run at once; a
\* per-step timeout fails the attempt no earlier than perStepMs after it
\* began, and, while run() still waits, no later than the total deadline.
C12_FirstDeadlineWins ==
  [][\A r \in RunIds :
      /\ (status[r] = "running" /\ status'[r] = "returned") =>
           /\ conf.totalMs > 0 => now <= Deadline(r)
           /\ ~signal'[r].aborted
           /\ rejection'[r] = Undef
      /\ status[r] = "rejected" => status'[r] = "rejected" /\ result'[r] = NoResult
      /\ (status[r] = "running" /\ status'[r] = "rejected") => result'[r] = NoResult
      /\ (status[r] = "running" /\ status'[r] = "rejected" /\ rejection'[r] # "abort"
             /\ conf.totalMs > 0 /\ now > Deadline(r)) =>
           rejection'[r] = "timeout"
      /\ (status[r] = "running" /\ pc[r] # "thrown" /\ rejection'[r] = "timeout") =>
           /\ conf.totalMs > 0
           /\ now' >= Deadline(r)
           /\ (now < Deadline(r) /\ conf.perStepMs > 0) =>
                /\ call[r].stage = "invoke"
                /\ call[r].attemptAt + conf.perStepMs >= Deadline(r)
      /\ (~signal[r].aborted /\ signal'[r].aborted /\ opts[r].kind = "run") =>
           status'[r] = "rejected" /\ rejection'[r] = "abort"
      /\ (invoked'[r] # invoked[r] /\ call'[r].error = "timeout"
             /\ call'[r].attempt = call[r].attempt + 1) =>
           /\ conf.perStepMs > 0
           /\ call'[r].stage \in {"invoke", "failed"}
           /\ call'[r].ai = call[r].ai
           /\ now' >= call[r].attemptAt + conf.perStepMs
           /\ (status[r] = "running" /\ conf.totalMs > 0) =>
                call[r].attemptAt + conf.perStepMs <= Deadline(r)
    ]_vars

\* a run whose call failed on its per-step timer, strictly before the total
\* deadline, and was then rejected by the total timer
C12_Witness ==
  \E r \in RunIds :
    /\ status[r] = "rejected"
    /\ rejection[r] = "timeout"
    /\ conf.perStepMs > 0
    /\ conf.totalMs > conf.perStepMs
    /\ call[r].error = "timeout"
    /\ call[r].stage # "failed"
    /\ now >= Deadline(r)
    /\ result[r] = NoResult
\* ---------------------------------------------------------------- C16
\* C16: every model call of stream() is subject to the execution policy of
\* run() and the stream is bounded by the total deadline: once the plan call
\* has been answered its answer is in the response cache and, with a rate
\* limit set, the limiter has recorded the call; a stream that ended on a
\* failed model call has emitted a retry event before (retries.max is 2);
\* a stream that completed did so by its total deadline.
C16_StreamUnderPolicy ==
  \A r \in RunIds :
    opts[r].kind = "stream" =>
      /\ pc[r] = "s.decide" =>
           /\ CacheIndex(responseCache, invoked[r][1]) # 0
           /\ conf.rateLimit => limiter[r].lastAt # -1
      /\ pc[r] = "s.thrown" =>
           \E i \in 1..Len(emitted) : emitted[i].runId = r /\ emitted[i].kind = "retry"
      /\ status[r] = "returned" => (conf.totalMs = 0 \/ now <= Deadline(r))

\* ---------------------------------------------------------------- C17
\* C17: whenever run() or stream() has ended, normally or by a failure, the
\* handler the facade subscribed for that invocation is no longer on the bus.
C17_SubscriptionReleased ==
  \A r \in RunIds : status[r] \in {"returned", "rejected"} => r \notin handlers

\* ---------------------------------------------------------------- C19
\* C19: stream() with an input that declares a schema yields no delta chunk
\* and, once it has completed, exactly one chunk: the end event with the run
\* metadata.
C19_SchemaStreamOneChunk ==
  \A r \in RunIds :
    (opts[r].kind = "stream" /\ Truthy(extractSchemaFromInput(opts[r].input))) =>
      /\ \A i \in 1..Len(chunks[r]) : chunks[r][i].delta = Undef
      /\ Len(chunks[r]) <= 1
      /\ pc[r] \in {"s.yielded", "s.done"} =>
           /\ Len(chunks[r]) = 1
           /\ chunks[r][1].event = "end"
           /\ chunks[r][1].meta.steps = Min(opts[r].maxSteps, 3)
           /\ chunks[r][1].meta.usedTools = NamesOf(loc[r].toolMessages)
           /\ ~chunks[r][1].meta.cacheHit

\* a completed stream of a schema input, after a tool call
C19_Witness ==
  \E r \in RunIds :
    /\ opts[r].kind = "stream"
    /\ Truthy(extractSchemaFromInput(opts[r].input))
    /\ status[r] = "returned"
    /\ Len(loc[r].toolMessages) = 1
    /\ Len(chunks[r]) = 1
    /\ chunks[r][1].event = "end"

\* ---------------------------------------------------------------- C20
\* C20: once the signal is aborted stream() yields no further delta chunk
\* and does not throw, and a stream aborted while it is yielding text
\* increments completes: the end chunk is yielded and the generator returns.
C20_AbortStopsDeltas ==
  /\ [][\A r \in RunIds :
          (opts[r].kind = "stream" /\ signal[r].aborted
             /\ pc[r] \in {"s.stream", "s.deltas", "s.yielded"}) =>
            /\ \/ chunks'[r] = chunks[r]
               \/ /\ Len(chunks'[r]) = Len(chunks[r]) + 1
                  /\ SubSeq(chunks'[r], 1, Len(chunks[r])) = chunks[r]
                  /\ chunks'[r][Len(chunks'[r])].event = "end"
            /\ pc[r] \in {"s.deltas", "s.yielded"} =>
                 status'[r] # "rejected" /\ rejection'[r] = Undef
       ]_vars
  /\ \A r \in RunIds :
       (opts[r].kind = "stream" /\ signal[r].aborted /\ pc[r] = "s.deltas")
         ~> (status[r] = "returned" /\ rejection[r] = Undef
               /\ chunks[r][Len(chunks[r])].event = "end")

\* a stream aborted after a delta was yielded: the loop was left by break on
\* the next chunk, and the generator completed
C20_Witness ==
  \E r \in RunIds :
    /\ opts[r].kind = "stream"
    /\ signal[r].aborted
    /\ loc[r].exit = "break"
    /\ status[r] = "returned"
    /\ rejection[r] = Undef
    /\ Len(chunks[r]) = 2
    /\ chunks[r][1].delta = "ab"
    /\ chunks[r][2].event = "end"
\* ---------------------------------------------------------------- C21
RECURSIVE JoinAll(_)
\* the concatenation of a sequence of texts
JoinAll(texts) ==
  IF texts = <<>> THEN "" ELSE texts[1] \o JoinAll(SubSeq(texts, 2, Len(texts)))

IsNonEmptyText(t) == t # ""
\* the deltas of the chunks a stream has yielded, in order
DeltasOf(r) ==
  LET ds == SelectSeq(chunks[r], LAMBDA c : c.event = Undef)
  IN [i \in 1..Len(ds) |-> ds[i].delta]

\* C21: for a plain-text input and a signal that is not aborted, stream()
\* yields the non-empty increments of the model as delta chunks, one each and
\* in the model's order, and none before the tool messages are in the
\* history; the end chunk comes once, last, with the meta; the assistant
\* message appended to the history is the concatenation of the deltas.
C21_StreamDeltasInOrder ==
  \A r \in RunIds :
    (opts[r].kind = "stream" /\ ~Truthy(extractSchemaFromInput(opts[r].input))
       /\ ~signal[r].aborted) =>
      /\ DeltasOf(r) = SelectSeq(loc[r].produced, IsNonEmptyText)
      /\ \A i \in 1..Len(chunks[r]) : chunks[r][i].event = "end" <=>
           (i = Len(chunks[r]) /\ pc[r] \in {"s.yielded", "s.done"})
      /\ chunks[r] # <<>> =>
           /\ Len(store[r]) >= 2 + Len(loc[r].toolMessages)
           /\ SubSeq(store[r], 3, 2 + Len(loc[r].toolMessages)) = loc[r].toolMessages
      /\ pc[r] \in {"s.yielded", "s.done"} =>
           /\ Len(chunks[r]) = Len(DeltasOf(r)) + 1
           /\ chunks[r][Len(chunks[r])].meta.steps = Min(opts[r].maxSteps, 4)
           /\ chunks[r][Len(chunks[r])].meta.usedTools = NamesOf(loc[r].toolMessages)
           /\ store[r][Len(store[r])] = Msg("assistant", JoinAll(DeltasOf(r)), Undef)
           /\ Len(store[r]) = 3 + Len(loc[r].toolMessages)

\* a completed stream of a text input: a tool message, then two different
\* deltas and the end chunk
C21_Witness ==
  \E r \in RunIds :
    /\ opts[r].kind = "stream"
    /\ opts[r].input.isString
    /\ ~signal[r].aborted
    /\ status[r] = "returned"
    /\ Len(loc[r].toolMessages) = 1
    /\ DeltasOf(r) = <<"ab", "c">>
    /\ Len(chunks[r]) = 3
    /\ chunks[r][3].event = "end"
\* ---------------------------------------------------------------- C22
\* C22: every emit calls every handler then subscribed through onEvent with
\* the event, whether or not handlers before it threw, and the emit itself
\* completes; a handler that is not subscribed, or was unsubscribed through
\* the returned function, is called with nothing.
C22_EmitReachesEveryHandler ==
  [][LET new == SubSeq(emitted', Len(emitted) + 1, Len(emitted'))
     IN \A h \in ListenerIds :
          /\ h \in Range(bus.listeners) => bus'.heard[h] = bus.heard[h] \o new
          /\ h \notin Range(bus.listeners) => bus'.heard[h] = bus.heard[h]
          /\ h \in bus.gone => h \notin Range(bus'.listeners)
    ]_vars

\* three events were emitted: the throwing handler was subscribed before the
\* first and has been called with all three; the other one subscribed after
\* it, was called with the second event only and has been unsubscribed
C22_Witness ==
  /\ Len(emitted) = 3
  /\ bus.heard["h_throws"] = emitted
  /\ bus.heard["h_ok"] = SubSeq(emitted, 2, 2)
  /\ bus.listeners = <<"h_throws">>
  /\ "h_ok" \in bus.gone
\* ---------------------------------------------------------------- C23
\* C23: when runs sharing one instance issue model requests with the same
\* cache key, in any interleaving, the model is invoked at most once for that
\* key within the TTL window: no two invocations, of one run or of two, have
\* the same key.
C23_OneInvocationPerKey ==
  \A r, q \in RunIds :
    \A i \in 1..Len(invoked[r]), j \in 1..Len(invoked[q]) :
      invoked[r][i] = invoked[q][j] => (r = q /\ i = j)
\* ---------------------------------------------------------------- C24
\* C24: every policy-wrapped call that succeeds without a cache hit emits a
\* cache:set event and then model:call:end, so a run has emitted as many
\* cache:set events as model:call:end events, each model:call:end directly
\* behind its cache:set.
C24_CacheSetEmitted ==
  \A r \in RunIds :
    LET es == EventsOf(r)
    IN /\ Len(SelectSeq(es, LAMBDA e : e.kind = "cache:set"))
            = Len(SelectSeq(es, LAMBDA e : e.kind = "model:call:end"))
       /\ \A i \in 1..Len(es) :
            es[i].kind = "model:call:end" => (i > 1 /\ es[i - 1].kind = "cache:set")

\* ---------------------------------------------------------------- C29
\* C29: a lookup that hits the cache emits cache:hit, hands back the stored
\* response and changes nothing else: the clock and the limiter's last-call
\* time stay, cache:hit is the only event, the cache holds the same entries,
\* and the model is not invoked.
C29_CacheHitFrame ==
  [][\A r \in RunIds :
      (call[r].stage = "lookup" /\ call'[r].stage = "done") =>
        /\ call'[r].fromCache
        /\ CacheIndex(responseCache, call[r].key) # 0
        /\ call'[r].ai = responseCache[CacheIndex(responseCache, call[r].key)].value
        /\ emitted' = Append(emitted, Event(r, "cache:hit", NoData))
        /\ Range(responseCache') = Range(responseCache)
        /\ Len(responseCache') = Len(responseCache)
        /\ limiter' = limiter
        /\ invoked' = invoked
        /\ now' = now
        /\ store' = store /\ st' = st /\ pc' = pc
    ]_vars

\* a call answered from the cache while the rate limit is on and the cache
\* holds another entry as well
C29_Witness ==
  \E r \in RunIds :
    /\ call[r].stage = "done"
    /\ call[r].fromCache
    /\ conf.rateLimit
    /\ Len(responseCache) >= 2
    /\ emitted[Len(emitted)] = Event(r, "cache:hit", NoData)
\* ---------------------------------------------------------------- C30
RECURSIVE Power(_, _)
Power(b, n) == IF n = 0 THEN 1 ELSE b * Power(b, n - 1)

\* C30: after failed attempt a of a model call, a < max, the call sleeps
\* min(initialDelay * factor^(a-1), maxDelay) before attempt a+1, which is
\* at most maxDelay and at least the sleep before; after the failed attempt
\* max the error is rethrown without a sleep.
C30_BackoffSchedule ==
  [][\A r \in RunIds :
      (call[r].stage = "invoke" /\ call'[r].attempt = call[r].attempt + 1) =>
        LET a == call'[r].attempt
            slept == now' - now
        IN IF a < conf.retriesMax
           THEN /\ call'[r].stage = "invoke"
                /\ slept = Min(RetryInitialDelayMs * Power(RetryFactor, a - 1),
                               RetryMaxDelayMs)
                /\ slept <= RetryMaxDelayMs
                /\ a > 1 => slept >= Min(RetryInitialDelayMs * Power(RetryFactor, a - 2),
                                         RetryMaxDelayMs)
           ELSE /\ call'[r].stage = "failed"
                /\ slept = 0
    ]_vars

\* a call that failed four times: the clock stands at the sum of the three
\* sleeps after the start of the run, and nothing was slept after the fourth
C30_Witness ==
  \E r \in RunIds :
    /\ conf.retriesMax = 4
    /\ call[r].stage = "failed"
    /\ call[r].attempt = 4
    /\ Len(RetriesOf(r)) = 3
    /\ now - opts[r].startedAt
         = Min(RetryInitialDelayMs, RetryMaxDelayMs)
           + Min(RetryInitialDelayMs * RetryFactor, RetryMaxDelayMs)
           + Min(RetryInitialDelayMs * RetryFactor * RetryFactor, RetryMaxDelayMs)
C26_PhaseOf(p) ==
  CASE p \in {"plan", "plan.call"} -> "plan"
    [] p \in {"act", "act.decide", "act.tools", "act.summarize"} -> "act"
    [] p \in {"reflect", "reflect.call"} -> "reflect"
    [] p = "validate" -> "validate"
    [] p = "converge" -> "converge"
    [] OTHER -> "none"

\* the transition table: successor of a phase for given step, maxSteps, isValid
C26_Table(phase, step, maxSteps, isValid) ==
  CASE phase = "plan" -> "act"
    [] phase = "act" /\ step >= maxSteps -> "validate"
    [] phase = "act" /\ step < maxSteps -> "reflect"
    [] phase = "reflect" /\ step + 1 >= maxSteps -> "validate"
    [] phase = "reflect" /\ step + 1 < maxSteps -> "act"
    [] phase = "validate" /\ (isValid = "true" \/ step >= maxSteps) -> "converge"
    [] phase = "validate" /\ isValid # "true" /\ step < maxSteps -> "act"
    [] phase = "converge" -> "END"

\* C26: whenever a run leaves a phase without an error, the phase it goes to
\* is the one the transition table gives for the phase left and the step
\* (as incremented by act), maxSteps and isValid of the state after the phase:
\* plan -> act; act -> validate iff step >= maxSteps else reflect;
\* reflect -> validate iff step >= maxSteps - 1 else act;
\* validate -> converge iff isValid or step >= maxSteps else act;
\* converge -> terminal.
C26_EdgesFollowTable ==
  [][\A r \in RunIds :
       (/\ C26_PhaseOf(pc[r]) # "none"
        /\ pc'[r] # pc[r]
        /\ pc'[r] # "thrown"
        /\ C26_PhaseOf(pc'[r]) # C26_PhaseOf(pc[r]))
       => pc'[r] = C26_Table(C26_PhaseOf(pc[r]), st'[r].step,
                             st'[r].maxSteps, st'[r].isValid)]_vars

\* a run that validate sent back to act, then through reflect straight to
\* validate, and on to converge at the ceiling with an invalid candidate
C26_Witness ==
  \E r \in RunIds :
    /\ pc[r] = "converge"
    /\ st[r].isValid = "false"
    /\ st[r].step = st[r].maxSteps
    /\ EntriesOf(r, "validate") >= 2
    /\ EntriesOf(r, "reflect") >= 1

\* C27: at every point of a run the step counter equals the number of act
\* phases the run has completed (each act adds exactly one; plan, reflect,
\* validate and converge add nothing, so the counter never decreases), and
\* the meta.steps a run returns equals the number of its entries into act.
C27_StepCountsActPhases ==
  \A r \in RunIds :
    /\ status[r] # "idle" => st[r].step = ExitsOf(r, "act")
    /\ status[r] = "returned"
         => result[r].meta.steps = EntriesOf(r, "act")

\* a returned run that entered act twice, reflected and validated in between
C27_Witness ==
  \E r \in RunIds :
    /\ status[r] = "returned"
    /\ result[r].meta.steps = 2
    /\ EntriesOf(r, "reflect") >= 1
    /\ EntriesOf(r, "validate") >= 1

\* C28: the validity flag a completed validate phase leaves is "true"
\* whenever the input declares an output schema, whatever the structured
\* call returned; without a schema it is "true" exactly when the candidate
\* answer is present and still non-empty once its whitespace is trimmed.
C28_ValidityFlag ==
  [][\A r \in RunIds :
       (pc[r] = "validate" /\ pc'[r] \in {"converge", "act"})
       => IF ~st[r].input.isString /\ st[r].input.schema # Undef
          THEN st'[r].isValid = "true"
          ELSE (st'[r].isValid = "true"
                  <=> st[r].candidateAnswer \notin {Undef, "", " "})
               /\ st'[r].isValid \in {"true", "false"}]_vars

\* both cases: one run validated a whitespace-only candidate as invalid,
\* another was marked valid with a schema although the call returned null
C28_Witness ==
  \E r, q \in RunIds :
    /\ EntriesOf(r, "validate") >= 1
    /\ st[r].input.schema = Undef
    /\ st[r].candidateAnswer = " "
    /\ st[r].isValid = "false"
    /\ st[q].input.schema # Undef
    /\ st[q].finalObject = "null"
    /\ st[q].isValid = "true"
\* ---------------------------------------------------------------- C31
\* C31: every model or tool interaction of a run is appended to its history;
\* in particular, once a run has completed a reflect phase the critique the
\* model returned is one of the messages of the run's history.
C31_ReflectResponseAppended ==
  \A r \in RunIds :
    ExitsOf(r, "reflect") >= 1
      => \E i \in 1..Len(store[r]) : store[r][i].content \in ThoughtTexts

\* ------------------------------------------------- a tool call in flight
\* executeToolCalls reaches the execute of a tool and awaits it
ToolsBegin(r) ==
  /\ pc[r] = "act.decide"
  /\ call[r].stage = "done"
  /\ \E i \in 1..Len(call[r].ai.tool_calls) : Executes(call[r].ai.tool_calls[i])
  /\ pc' = [pc EXCEPT ![r] = "act.tools"]
  /\ UNCHANGED <<now, conf, responseCache, store, handlers, emitted, bus, budget,
                 status, opts, st, call, limiter, loc, events, invoked, result,
                 signal, chunks, rejection>>

\* the execute awaited resolves or throws, executeToolCalls returns
ToolsEnd(r, outs) ==
  /\ pc[r] = "act.tools"
  /\ ToolsDone(r, outs)

\* a run up to the end of its act node, its tool calls taking time, under a
\* signal the caller may abort at any moment
ToolNext ==
  \/ \E r \in RunIds, input \in Inputs : StartRun(r, input)
  \/ \E r \in RunIds : CallLookup(r)
  \/ \E r \in RunIds : \E ai \in Responses(call[r].tag) : InvokeOk(r, ai)
  \/ \E r \in RunIds : \E kind \in ErrorKinds : InvokeFail(r, kind)
  \/ \E r \in RunIds : PlanEnter(r)
  \/ \E r \in RunIds : PlanExit(r)
  \/ \E r \in RunIds : ActEnter(r)
  \/ \E r \in RunIds : ToolsBegin(r)
  \/ \E r \in RunIds :
       \E outs \in [1..Len(call[r].ai.tool_calls) -> ExecOutcomes] : ToolsEnd(r, outs)
  \/ \E r \in RunIds :
       /\ \A i \in 1..Len(call[r].ai.tool_calls) : ~Executes(call[r].ai.tool_calls[i])
       /\ \E outs \in [1..Len(call[r].ai.tool_calls) -> ExecOutcomes] : ActTools(r, outs)
  \/ \E r \in RunIds : ActExit(r)
  \/ \E r \in RunIds : Abort(r)

ToolSpec == InitIn(ToolScenarios) /\ [][ToolNext]_vars
\* ---------------------------------------------------------------- C32
\* C32: an abort of the signal while a tool's execute is in flight takes
\* effect only at the next timeout-wrapped model call: as long as the tool
\* call of the act iteration is in flight, run() has not been rejected.
C32_AbortWaitsForModelCall ==
  \A r \in RunIds :
    (pc[r] = "act.tools" /\ signal[r].aborted) => status[r] = "running"

\* ------------------------------------------------------- a small cache
\* requests whose cache keys differ: three message lists
CacheRequests == {<<HumanMessage(t)>> : t \in {"q1", "q2", "q3"}}

\* callModelText is called with the messages: the lookup comes next
CacheRequest(r, messages) ==
  /\ r = RunOrder[1]
  /\ call[r].stage \in {"none", "done"}
  /\ Len(emitted) < MaxCacheCalls
  /\ call' = [call EXCEPT ![r] =
       NewCall("reflect", messages, Len(emitted), Len(invoked[r]))]
  /\ UNCHANGED <<now, conf, responseCache, store, handlers, emitted, bus, budget,
                 status, opts, pc, st, limiter, loc, events, invoked, result,
                 signal, chunks, rejection>>

\* time passes between two requests
CacheWait ==
  /\ \A r \in RunIds : call[r].stage \in {"none", "done"}
  /\ budget.idle > 0
  /\ budget' = [budget EXCEPT !.idle = @ - 1]
  /\ now' = now + 1
  /\ UNCHANGED <<conf, responseCache, store, handlers, emitted, bus, status, opts, pc,
                 st, call, limiter, loc, events, invoked, result,
                 signal, chunks, rejection>>

CacheNext ==
  \/ \E r \in RunIds, messages \in CacheRequests : CacheRequest(r, messages)
  \/ \E r \in RunIds : CallLookup(r)
  \/ \E r \in RunIds : \E ai \in Responses(call[r].tag) : InvokeOk(r, ai)
  \/ CacheWait

CacheSpec == InitIn(CacheScenarios) /\ [][CacheNext]_vars
\* ---------------------------------------------------------------- C33
\* C33: the cache never holds more than max entries, nor two for one key;
\* storing a new key in a full cache evicts exactly the least recently used
\* entry, a hit making its entry the most recently used; a lookup returns an
\* entry only while no more than ttlMs have passed since it was stored, and
\* a hit leaves the time the entry was stored as it was.
C33_CacheBounded ==
  [][/\ Len(responseCache') <= conf.cacheMax
     /\ \A i, j \in 1..Len(responseCache') :
          responseCache'[i].key = responseCache'[j].key => i = j
     /\ \A r \in RunIds :
          /\ (call[r].stage = "invoke" /\ call'[r].stage = "done"
               /\ Len(responseCache) = conf.cacheMax) =>
                /\ Len(responseCache') = conf.cacheMax
                /\ \A i \in 2..Len(responseCache) :
                     responseCache'[i - 1] = responseCache[i]
                /\ responseCache'[conf.cacheMax].key = call[r].key
                /\ responseCache'[conf.cacheMax].at = now
          /\ (call[r].stage = "lookup" /\ call'[r].fromCache) =>
                /\ \E i \in 1..Len(responseCache) :
                     /\ responseCache[i].key = call[r].key
                     /\ now - responseCache[i].at <= TtlMs
                     /\ responseCache'[Len(responseCache')] = responseCache[i]
                /\ Len(responseCache') = Len(responseCache)
          /\ (call[r].stage = "lookup" /\ call'[r].stage = "invoke") =>
                \A i \in 1..Len(responseCache) :
                  responseCache[i].key = call[r].key
                    => now - responseCache[i].at > TtlMs]_vars

\* a full cache of two entries, the older of which was hit after the younger
\* was stored, has evicted the younger for a third key
C33_Witness ==
  /\ conf.cacheMax = 2
  /\ Len(responseCache) = 2
  /\ Len(emitted) = 4
  /\ emitted[3].kind = "cache:hit"
  /\ responseCache[1].key.messages = <<HumanMessage("q1")>>
  /\ responseCache[2].key.messages = <<HumanMessage("q3")>>
  /\ responseCache[1].at < responseCache[2].at
\* ---------------------------------------------------------------- C34
\* C34: a run with maxSteps = N that has reached converge has entered act
\* exactly N - 1 times if its first validation passed (and N >= 2) and exactly
\* N times otherwise, once for N = 1; at every point of a run validate has
\* been entered at most twice and no reflect phase is entered after a
\* validate phase.
C34_ActCountAtConverge ==
  \A r \in RunIds :
    LET N == opts[r].maxSteps
        acts == EntriesOf(r, "act")
        validates == EntriesOf(r, "validate")
        nodes == NodeEventsOf(r)
    IN /\ validates <= 2
       /\ \A i, j \in 1..Len(nodes) :
            (/\ i < j
             /\ nodes[i].kind = "node:enter" /\ nodes[i].data.node = "validate"
             /\ nodes[j].kind = "node:enter")
            => nodes[j].data.node # "reflect"
       /\ EntriesOf(r, "converge") >= 1 =>
            IF N = 1 THEN acts = 1 /\ validates = 1
            ELSE \/ acts = N - 1 /\ validates = 1 /\ st[r].isValid = "true"
                 \/ acts = N /\ validates = 2

\* a run of three steps whose first candidate was whitespace: it converged
\* after three act phases and two validations
C34_Witness ==
  \E r \in RunIds :
    /\ opts[r].maxSteps = 3
    /\ pc[r] = "END"
    /\ EntriesOf(r, "act") = 3
    /\ EntriesOf(r, "validate") = 2
    /\ EntriesOf(r, "reflect") = 2
\* ---------------------------------------------------------------- C35
\* C35: the cacheHit flag of the result of a run is true exactly when one of
\* the run's policy-wrapped calls (plan, act tool-decision, act summarize,
\* reflect) was answered from the cache, that is, when the run emitted a
\* cache:hit event.
C35_CacheHitFlag ==
  \A r \in RunIds :
    status[r] = "returned" =>
      (result[r].meta.cacheHit
         <=> \E i \in 1..Len(emitted) :
               emitted[i].runId = r /\ emitted[i].kind = "cache:hit")
\* ---------------------------------------------------------------- C36
\* C36: once run() has settled, by returning a result or by rejecting on the
\* total deadline or on cancellation, the run's state machine does nothing
\* more: no model invocation, no append to its history, no event of the run.
C36_SettledRunIsQuiet ==
  [][\A r \in RunIds :
       status[r] \in {"returned", "rejected"} =>
         /\ invoked'[r] = invoked[r]
         /\ store'[r] = store[r]
         /\ EventsOf(r)' = EventsOf(r)]_vars
\* ---------------------------------------------------------------- C37
\* C37: with event capture on, the list a run collects for its meta.events
\* holds only events of that run, also while another run() of the instance
\* is executing.
C37_OwnEventsOnly ==
  \A r \in RunIds :
    \A i \in 1..Len(events[r]) : events[r][i].runId = r
\* ---------------------------------------------------------------- C38
\* C38: a run has emitted run:start exactly once, before every other event
\* of the run; it has emitted run:end exactly once if run() has returned a
\* result, as the last event of the run and so after its last node:exit; and
\* it has emitted no run:end if run() is still running or has rejected (phase
\* failure, timeout, cancellation).
C38_RunStartAndEnd ==
  \A r \in RunIds :
    LET es == EventsOf(r)
        starts == Len(SelectSeq(es, LAMBDA e : e.kind = "run:start"))
        ends == Len(SelectSeq(es, LAMBDA e : e.kind = "run:end"))
    IN /\ status[r] = "idle" => es = <<>>
       /\ status[r] # "idle" => starts = 1 /\ es[1].kind = "run:start"
       /\ status[r] = "returned" => ends = 1 /\ es[Len(es)].kind = "run:end"
                                          /\ ExitsOf(r, "converge") = 1
       /\ status[r] # "returned" => ends = 0

\* a run that returned after its node events, on an instance with deadlines
C38_Witness ==
  \E r \in RunIds :
    /\ status[r] = "returned"
    /\ conf.totalMs > 0
    /\ ExitsOf(r, "act") >= 1
    /\ EventsOf(r)[Len(EventsOf(r))].kind = "run:end"
\* ---------------------------------------------------------------- C39
\* C39: a tool call of the model that names a tool whose definition is
\* disabled or hidden gets the tool message an unregistered name gets, an
\* error payload naming the tool, and the execute of such a tool is not among
\* the executes invoked for the act iteration.
C39_OffToolsNeverRun ==
  \A r \in RunIds :
    pc[r] = "act.summarize" =>
      LET calls == loc[r].ai1.tool_calls
          msgs == loc[r].toolMessages
      IN /\ Len(msgs) = Len(calls)
         /\ \A i \in 1..Len(calls) :
              calls[i].name \in {"legacy", "secret"} =>
                /\ msgs[i].role = "tool"
                /\ msgs[i].name = calls[i].name
                /\ msgs[i].content =
                     (IF calls[i].name = "legacy"
                      THEN "{error: unregistered tool legacy}"
                      ELSE "{error: unregistered tool secret}")
         /\ \A i \in 1..Len(loc[r].executed) :
              loc[r].executed[i] \notin {"legacy", "secret"}

\* the model called the hidden tool: its message is the error payload and no
\* execute was invoked
C39_Witness ==
  \E r \in RunIds :
    /\ pc[r] = "act.summarize"
    /\ loc[r].ai1.tool_calls = <<[name |-> "secret", args |-> "ok"]>>
    /\ loc[r].toolMessages = <<Msg("tool", "{error: unregistered tool secret}", "secret")>>
    /\ loc[r].executed = <<>>
\* ---------------------------------------------------------------- C40
\* C40: an attempt of a policy-wrapped call that fails, by an error of the
\* model, a timeout or an abort, whether it is retried or ends the call,
\* leaves the response cache as it was, and no entry is stored under the key
\* of the call: a request with that key is not answered from the cache.
C40_FailureLeavesCache ==
  [][\A r \in RunIds :
       (/\ call[r].stage = "invoke"
        /\ call'[r].stage = "failed" \/ call'[r].attempt > call[r].attempt)
       => /\ responseCache' = responseCache
          /\ \A i \in 1..Len(responseCache') :
               responseCache'[i].key # call[r].key]_vars

\* a call that ended in a timeout after the plan call had been stored: the
\* cache holds the plan's entry and none for the failed call
C40_Witness ==
  \E r \in RunIds :
    /\ call[r].stage = "failed"
    /\ call[r].error = "timeout"
    /\ call[r].tag = "act.decide"
    /\ Len(responseCache) = 1
    /\ responseCache[1].key.tag = "plan"
====
